---------------------------- MODULE Spec2Model ----------------------------
(***************************************************************************)
(* A model of the Viewpoints data pipeline: DataManager (ingestion, row    *)
(* removal), NormalizeColumn, MainFrame (selection vector, brushing,       *)
(* propagation to the canvases, subsampling in UpdatePlot) and the part of *)
(* WebGPUCanvas that holds a view's selection and display index map.       *)
(*                                                                         *)
(* Conventions.  Rows, columns and plots are numbered from 0 as in the     *)
(* code; At(s, i) reads the element the code calls s[i].  A float is an    *)
(* integer, or NaN for a non-finite value.  A normalized coordinate is an  *)
(* integer number of thousandths, so the display range [-0.9, 0.9] is      *)
(* -900..900.  The GUI event loop is single threaded: every action is one  *)
(* handler run to completion, and the closures queued with CallAfter wait  *)
(* in `pending` until RunDeferred runs the oldest one.                     *)
(***************************************************************************)
EXTENDS Integers, Sequences, FiniteSets, TLC

VARIABLES
    m_data,         \* DataManager::m_data, the Column Store behind dataset()
    m_error,        \* DataManager::m_error
    m_delimiter,    \* DataManager::m_delimiter
    m_selection,    \* MainFrame::m_selection
    m_activeBrush,  \* MainFrame::m_activeBrush
    cp_activeBrush, \* ControlPanel::m_activeBrush
    m_activePlot,   \* MainFrame::m_activePlot
    m_plotConfigs,  \* MainFrame::m_plotConfigs
    m_normCache,    \* MainFrame::m_normCache
    m_canvases,     \* per plot: WebGPUCanvas m_selection, m_displayIndices, m_points
    pending,        \* closures queued by CallAfter, oldest first
    waited,         \* events handled since the oldest closure was queued
    m_maxRows,      \* MainFrame::m_maxRows
    savedFile,      \* the file OnSave wrote last
    last            \* the handler that ran last and its inputs

vars == << m_data, m_error, m_delimiter, m_selection, m_activeBrush,
           cp_activeBrush, m_activePlot, m_plotConfigs, m_normCache,
           m_canvases, pending, waited, m_maxRows, savedFile, last >>

---------------------------------------------------------------------------
(* Sequences, numbered from 0 as in the code.                             *)

At(s, i) == s[i + 1]

Idx(s) == 0 .. (Len(s) - 1)

Min2(a, b) == IF a <= b THEN a ELSE b

Max2(a, b) == IF a >= b THEN a ELSE b

Fill(n, v) == [i \in 1 .. n |-> v]

\* F applied to the value of v, which is computed once
With(v, F(_)) == CHOOSE result \in {F(x) : x \in {v}} : TRUE

RECURSIVE SetToSortedSeq(_)
SetToSortedSeq(S) ==
    IF S = {} THEN << >>
    ELSE LET m == CHOOSE x \in S : \A y \in S : x <= y
         IN  << m >> \o SetToSortedSeq(S \ {m})

---------------------------------------------------------------------------
(* Floats.                                                                 *)

NaN == -1000000

isfinite(v) == v # NaN

\* a < b, a > b, a <= b, a >= b on floats: every comparison with NaN is false
FLt(a, b) == isfinite(a) /\ isfinite(b) /\ a < b

FGt(a, b) == isfinite(a) /\ isfinite(b) /\ a > b

FLe(a, b) == isfinite(a) /\ isfinite(b) /\ a <= b

FGe(a, b) == isfinite(a) /\ isfinite(b) /\ a >= b

Abs(v) == IF v < 0 THEN -v ELSE v

\* integer division rounding toward zero, as the float result is read in
\* thousandths
Div(a, b) ==
    LET q == Abs(a) \div Abs(b)
    IN  IF (a < 0) = (b < 0) THEN q ELSE -q

\* the integer part of the square root
RECURSIVE ISqrt(_)
ISqrt(n) ==
    IF n < 2 THEN n
    ELSE LET r == 2 * ISqrt(n \div 4)
         IN  IF (r + 1) * (r + 1) <= n THEN r + 1 ELSE r

---------------------------------------------------------------------------
(* Normalize.cpp                                                           *)

NormModes == {"None", "MinMax", "ZeroMax", "MaxAbs", "Trim1e2", "Trim1e3",
              "ThreeSigma", "Log10", "Arctan", "Rank", "Gaussianize"}

finiteValues(values) == SelectSeq(values, isfinite)

RECURSIVE SeqMin(_)
SeqMin(s) == IF Len(s) = 1 THEN s[1] ELSE Min2(s[1], SeqMin(Tail(s)))

RECURSIVE SeqMax(_)
SeqMax(s) == IF Len(s) = 1 THEN s[1] ELSE Max2(s[1], SeqMax(Tail(s)))

RECURSIVE SeqSum(_)
SeqSum(s) == IF s = << >> THEN 0 ELSE s[1] + SeqSum(Tail(s))

\* a minimum that is never above zero
finiteMinMaxFromZero(values) ==
    LET f == finiteValues(values)
    IN  IF f = << >> THEN << 0, 1 >> ELSE << Min2(0, SeqMin(f)), SeqMax(f) >>

\* <<mn, mx>> over the finite values; <<0, 1>> when there is none
finiteMinMax(values) ==
    LET f == finiteValues(values)
    IN  IF f = << >> THEN << 0, 1 >> ELSE << SeqMin(f), SeqMax(f) >>

\* a mapping that puts a value that is not finite at the low end
mapToDisplayClamping(values, inMin, inMax) ==
    LET range == IF inMax - inMin = 0 THEN 1000 ELSE inMax - inMin
    IN  [i \in 1 .. Len(values) |->
            IF ~isfinite(values[i]) THEN -900
            ELSE Div((values[i] - inMin) * 1800, range) - 900]

\* finite values, in thousandths, mapped from [inMin, inMax] to [-900, 900]
mapToDisplay(values, inMin, inMax) ==
    LET range == IF inMax - inMin = 0 THEN 1000 ELSE inMax - inMin
    IN  [i \in 1 .. Len(values) |->
            IF ~isfinite(values[i]) THEN values[i]
            ELSE Div((values[i] - inMin) * 1800, range) - 900]

\* clampValues, on thousandths
clampValues(values, lo, hi) ==
    [i \in 1 .. Len(values) |->
        IF ~isfinite(values[i]) THEN values[i]
        ELSE Max2(lo, Min2(hi, values[i]))]

\* std::sort of a vector of finite values
RECURSIVE SortFloats(_)
SortFloats(s) ==
    IF s = << >> THEN << >>
    ELSE LET m == SeqMin(s)
             k == CHOOSE i \in 1 .. Len(s) : s[i] = m
         IN  << m >> \o SortFloats(SubSeq(s, 1, k - 1) \o SubSeq(s, k + 1, Len(s)))

\* percentile(sorted, p), p and the result in thousandths
percentile(sorted, p) ==
    IF sorted = << >> THEN 0
    ELSE LET idx == p * (Len(sorted) - 1)
             lo == idx \div 1000
             hi == Min2(lo + 1, Len(sorted) - 1)
             frac == idx % 1000
         IN  At(sorted, lo) * (1000 - frac) + At(sorted, hi) * frac

\* the values in thousandths
Milli(values) ==
    [i \in 1 .. Len(values) |->
        IF ~isfinite(values[i]) THEN values[i] ELSE values[i] * 1000]

\* std::log10 of the integers 1..10, in thousandths
Log10Table == << 0, 301, 477, 602, 698, 778, 845, 903, 954, 1000 >>

\* std::log10(n) for an integer n >= 1, in thousandths: the table, between
\* its entries by interpolation
RECURSIVE log10(_)
log10(n) ==
    IF n <= 10 THEN Log10Table[n]
    ELSE IF n < 100
    THEN LET d == n \div 10
         IN  1000 + Log10Table[d]
             + ((Log10Table[d + 1] - Log10Table[d]) * (n % 10)) \div 10
    ELSE 1000 + log10(n \div 10)

\* std::atan(t) * (2 / pi) for t in thousandths, in thousandths: within
\* (-1000, 1000), odd and increasing
atanUnit(t) ==
    LET a == Abs(t)
        u(x) == (x * (500000 + 174 * (1000 - x))) \div 1000000
        r == IF a <= 1000 THEN u(a) ELSE 1000 - u(1000000 \div a) - 1
    IN  IF t < 0 THEN -r ELSE r

\* 1.4142135 * erfinv(2p - 1) at p = (i + 0.5) / nf, in thousandths, for the
\* nf = 1..7 finite values the columns of the model hold at most
GaussTable ==
    << << 0 >>,
       << -675, 675 >>,
       << -968, 0, 968 >>,
       << -1151, -319, 319, 1151 >>,
       << -1282, -524, 0, 524, 1282 >>,
       << -1383, -675, -210, 210, 675, 1383 >>,
       << -1465, -792, -366, 0, 366, 792, 1465 >> >>

\* the rows with finite values before row i in finiteIdx once it is sorted
\* by value (rows of equal value in row order, as an insertion sort leaves
\* them)
SortedPosition(values, i) ==
    Cardinality({j \in 1 .. Len(values) :
                    /\ isfinite(values[j])
                    /\ \/ values[j] < values[i]
                       \/ values[j] = values[i] /\ j < i})

\* NormalizeColumn on the extracted column; the result is in thousandths (mode
\* None returns the raw values, which are so many thousand thousandths)
NormalizeValues(values, mode) ==
    IF values = << >> THEN << >>
    ELSE LET f == finiteValues(values)
             mm == finiteMinMax(values)
             each(F(_)) == [i \in 1 .. Len(values) |->
                               IF ~isfinite(values[i]) THEN values[i]
                               ELSE F(values[i])]
         IN
         CASE mode = "MinMax" ->
            LET range == IF mm[2] - mm[1] = 0 THEN 1 ELSE mm[2] - mm[1]
                unit == each(LAMBDA v : Div((v - mm[1]) * 1000, range))
            IN  mapToDisplay(unit, 0, 1000)
      [] mode = "ZeroMax" ->
            LET mx == IF mm[2] = 0 THEN 1 ELSE mm[2]
                unit == each(LAMBDA v : Div(v * 1000, mx))
            IN  mapToDisplay(unit, 0, 1000)
      [] mode = "MaxAbs" ->
            LET m0 == IF f = << >> THEN 0
                      ELSE SeqMax([i \in 1 .. Len(f) |-> Abs(f[i])])
                maxAbs == IF m0 = 0 THEN 1 ELSE m0
                unit == each(LAMBDA v : Div(v * 1000, maxAbs))
            IN  mapToDisplay(unit, -1000, 1000)
      [] mode \in {"Trim1e2", "Trim1e3"} ->
            LET pLo == IF mode = "Trim1e2" THEN 10 ELSE 1
                sorted == SortFloats(f)
                lo == percentile(sorted, pLo)
                hi == percentile(sorted, 1000 - pLo)
            IN  mapToDisplay(clampValues(Milli(values), lo, hi), lo, hi)
      [] mode = "ThreeSigma" ->
            IF f = << >> THEN values
            ELSE LET count == Len(f)
                     sum == SeqSum(f)
                     sum2 == SeqSum([i \in 1 .. count |-> f[i] * f[i]])
                     mean == Div(sum * 1000, count)
                     var == Div(sum2 * 1000000, count) - mean * mean
                     s0 == ISqrt(Max2(var, 0))
                     sigma == IF s0 = 0 THEN 1000 ELSE s0
                     lo == mean - 3 * sigma
                     hi == mean + 3 * sigma
                 IN  mapToDisplay(clampValues(Milli(values), lo, hi), lo, hi)
      [] mode = "Log10" ->
            LET shift == IF mm[1] <= 0 THEN 1 - mm[1] ELSE 0
                logs == each(LAMBDA v : log10(v + shift))
                lm == finiteMinMax(logs)
            IN  mapToDisplay(logs, IF finiteValues(logs) = << >> THEN 0 ELSE lm[1],
                             IF finiteValues(logs) = << >> THEN 1000 ELSE lm[2])
      [] mode = "Arctan" ->
            LET sorted == SortFloats(f)
                median == percentile(sorted, 500)
                q1 == percentile(sorted, 250)
                q3 == percentile(sorted, 750)
                iqr == IF q3 - q1 = 0 THEN 1000 ELSE q3 - q1
                unit == each(LAMBDA v : atanUnit(Div((v * 1000 - median) * 1000, iqr)))
            IN  mapToDisplay(unit, -1000, 1000)
      [] mode = "Rank" ->
            IF f = << >> THEN values
            ELSE LET nf == Len(f)
                     maxRank == IF nf - 1 = 0 THEN 1 ELSE nf - 1
                     less(v) == Cardinality({j \in 1 .. nf : f[j] < v})
                     same(v) == Cardinality({j \in 1 .. nf : f[j] = v})
                     \* avgRank = (i + j - 1) / 2 with i = less, j = less + same
                     unit == each(LAMBDA v :
                                Div((2 * less(v) + same(v) - 1) * 1000, 2 * maxRank))
                 IN  mapToDisplay(unit, 0, 1000)
      [] mode = "Gaussianize" ->
            IF f = << >> THEN values
            ELSE LET nf == Len(f)
                     result == [i \in 1 .. Len(values) |->
                                  IF ~isfinite(values[i]) THEN NaN
                                  ELSE GaussTable[nf][SortedPosition(values, i) + 1]]
                     rm == finiteMinMax(result)
                 IN  mapToDisplay(result, rm[1], rm[2])
      [] OTHER -> Milli(values)

---------------------------------------------------------------------------
(* DataManager.cpp: the Column Store and the text reader.                  *)
(* A line of a file is a sequence of atoms: one-character strings, and the *)
(* few longer words the reader compares a whole token with.  A token is a  *)
(* sequence of atoms.                                                      *)

EmptyDataSet ==
    [columnLabels |-> << >>, data |-> << >>, numRows |-> 0, numCols |-> 0,
     columnMeta |-> << >>]

\* DataSet::value(row, col)
value(ds, row, col) == At(ds.data, row * ds.numCols + col)

\* a float read outside a vector's storage: any of these may come back
Garbage == {NaN, 0}

\* the column as NormalizeColumn's extractColumn(&ds.data[col], numRows, numCols)
\* reads it; g is what a read past the end of ds.data returns
extractColumn(ds, col, g) ==
    [r \in 1 .. ds.numRows |->
        LET k == (r - 1) * ds.numCols + col
        IN  IF k < Len(ds.data) THEN At(ds.data, k) ELSE g]

Whitespace == {" ", "\t"}

CommentChars == {"#", "!", "%"}

\* the atoms in the order of their bytes
AtomOrder == << "\t", " ", "!", "#", "%", ",", "-", "0", "1", "2", "3", "4", "5",
                "6", "7", "8", "9", "NA", "a", "b", "c", "nan", "x", "y", "z" >>

AtomRank(a) == CHOOSE i \in 1 .. Len(AtomOrder) : AtomOrder[i] = a

\* the number an atom reads as with operator>>(double)
AtomNum == ("0" :> 0) @@ ("1" :> 1) @@ ("2" :> 2) @@ ("3" :> 3) @@ ("4" :> 4)
           @@ ("5" :> 5) @@ ("6" :> 6) @@ ("7" :> 7) @@ ("8" :> 8) @@ ("9" :> 9)

\* istringstream(tok) >> val succeeds: the token starts with a number
ParsesAsNumber(tok) ==
    /\ tok # << >>
    /\ \/ Head(tok) \in DOMAIN AtomNum
       \/ Head(tok) = "-" /\ Len(tok) > 1 /\ tok[2] \in DOMAIN AtomNum

\* the value of the digits the token starts with
RECURSIVE LeadingNumber(_, _)
LeadingNumber(tok, acc) ==
    IF tok = << >> \/ Head(tok) \notin DOMAIN AtomNum THEN acc
    ELSE LeadingNumber(Tail(tok), acc * 10 + AtomNum[Head(tok)])

ParsedNumber(tok) ==
    IF Head(tok) = "-" THEN -LeadingNumber(Tail(tok), 0) ELSE LeadingNumber(tok, 0)

isSpecial(tok) == tok \in {<< "nan" >>, << "NA" >>}

RECURSIVE LexLess(_, _)
LexLess(a, b) ==
    IF b = << >> THEN FALSE
    ELSE IF a = << >> THEN TRUE
    ELSE IF Head(a) # Head(b) THEN AtomRank(Head(a)) < AtomRank(Head(b))
    ELSE LexLess(Tail(a), Tail(b))

\* a sort that puts the greatest string first
RECURSIVE SortStringsDescending(_)
SortStringsDescending(S) ==
    IF S = {} THEN << >>
    ELSE LET m == CHOOSE x \in S : \A y \in S \ {x} : LexLess(y, x)
         IN  << m >> \o SortStringsDescending(S \ {m})

\* std::sort of a set of distinct strings
RECURSIVE SortStrings(_)
SortStrings(S) ==
    IF S = {} THEN << >>
    ELSE LET m == CHOOSE x \in S : \A y \in S \ {x} : LexLess(x, y)
         IN  << m >> \o SortStrings(S \ {m})

isCommentLine(line) == line = << >> \/ Head(line) \in CommentChars

RECURSIVE TrimLeft(_)
TrimLeft(tok) ==
    IF tok # << >> /\ Head(tok) \in Whitespace THEN TrimLeft(Tail(tok)) ELSE tok

RECURSIVE TrimRight(_)
TrimRight(tok) ==
    IF tok # << >> /\ tok[Len(tok)] \in Whitespace
    THEN TrimRight(SubSeq(tok, 1, Len(tok) - 1)) ELSE tok

Trim(tok) == TrimRight(TrimLeft(tok))

RECURSIVE SplitWhitespace(_, _, _)
SplitWhitespace(line, cur, acc) ==
    IF line = << >> THEN (IF cur = << >> THEN acc ELSE Append(acc, cur))
    ELSE IF Head(line) \in Whitespace
         THEN SplitWhitespace(Tail(line), << >>,
                              IF cur = << >> THEN acc ELSE Append(acc, cur))
         ELSE SplitWhitespace(Tail(line), Append(cur, Head(line)), acc)

RECURSIVE SplitDelimiter(_, _, _, _)
SplitDelimiter(line, delimiter, cur, acc) ==
    IF line = << >> THEN (IF cur = << >> THEN acc ELSE Append(acc, Trim(cur)))
    ELSE IF Head(line) = delimiter
         THEN SplitDelimiter(Tail(line), delimiter, << >>, Append(acc, Trim(cur)))
         ELSE SplitDelimiter(Tail(line), delimiter, Append(cur, Head(line)), acc)

splitTokens(line, delimiter) ==
    IF delimiter = " " THEN SplitWhitespace(line, << >>, << >>)
    ELSE SplitDelimiter(line, delimiter, << >>, << >>)

\* the loop index of the first line that is not a comment, 0 when there is none
RECURSIVE FirstNonComment(_, _)
FirstNonComment(lines, i) ==
    IF i > Len(lines) THEN 0
    ELSE IF isCommentLine(lines[i]) THEN FirstNonComment(lines, i + 1)
    ELSE i

\* lastCommentLine: the last non-empty comment line before line `upto`
RECURSIVE LastCommentLine(_, _)
LastCommentLine(lines, upto) ==
    IF upto < 1 THEN << >>
    ELSE IF lines[upto] # << >> /\ isCommentLine(lines[upto]) THEN lines[upto]
    ELSE LastCommentLine(lines, upto - 1)

FNe(a, b) == ~isfinite(a) \/ ~isfinite(b) \/ a # b

\* the lambda parseLine; st holds m_data (ds), candidateCategorical (cand),
\* rawStrings (raw), firstDataRow and the reading loop's counters
parseLine(st, dataLine, delimiter) ==
    LET dataTokens == splitTokens(dataLine, delimiter)
        nc == st.ds.numCols
        cell(col) ==
            LET tok == At(dataTokens, col)
                isCand == At(st.cand, col)
            IN  IF tok = << >> THEN [val |-> 0, cand |-> isCand, push |-> isCand]
                ELSE IF isCand THEN [val |-> 0, cand |-> TRUE, push |-> TRUE]
                ELSE IF isSpecial(tok) THEN [val |-> 0, cand |-> FALSE, push |-> FALSE]
                ELSE IF ParsesAsNumber(tok)
                     THEN [val |-> ParsedNumber(tok), cand |-> FALSE, push |-> FALSE]
                ELSE IF st.firstDataRow THEN [val |-> 0, cand |-> TRUE, push |-> TRUE]
                ELSE [val |-> 0, cand |-> FALSE, push |-> FALSE]
    IN  IF Len(dataTokens) < nc THEN st
        ELSE [st EXCEPT
                !.ds.data = @ \o [c \in 1 .. nc |-> cell(c - 1).val],
                !.ds.numRows = @ + 1,
                !.cand = [c \in 1 .. nc |-> cell(c - 1).cand],
                !.raw = [c \in 1 .. nc |->
                            IF cell(c - 1).push
                            THEN Append(st.raw[c], At(dataTokens, c - 1))
                            ELSE st.raw[c]],
                !.firstDataRow = FALSE]

\* lines between two progress reports (the reader reports every 10000 lines;
\* the model's files are short)
PROGRESS_EVERY == 2

\* "Read remaining lines": the loop over the lines from index i on.  The
\* progress callback's answer is its cancelAt-th call returning false.
RECURSIVE ReadRemaining(_, _, _, _, _, _)
ReadRemaining(st, lines, i, delimiter, maxRows, cancelAt) ==
    IF i > Len(lines) THEN st
    ELSE IF isCommentLine(lines[i])
         THEN ReadRemaining(st, lines, i + 1, delimiter, maxRows, cancelAt)
    ELSE With([parseLine(st, lines[i], delimiter) EXCEPT !.linesRead = @ + 1],
              LAMBDA st1 :
                IF maxRows > 0 /\ st1.ds.numRows >= maxRows THEN st1
                ELSE IF st1.linesRead % PROGRESS_EVERY = 0
                     THEN IF st1.calls + 1 = cancelAt
                          THEN [st1 EXCEPT !.calls = @ + 1, !.cancelled = TRUE]
                          ELSE With([st1 EXCEPT !.calls = @ + 1],
                                    LAMBDA st2 : ReadRemaining(st2, lines, i + 1,
                                                    delimiter, maxRows, cancelAt))
                     ELSE ReadRemaining(st1, lines, i + 1, delimiter, maxRows,
                                        cancelAt))

Range(s) == {s[i] : i \in DOMAIN s}

IndexOf(s, x) == (CHOOSE i \in DOMAIN s : s[i] = x) - 1

NoMeta == [isCategorical |-> FALSE, categories |-> << >>]

\* "Encode confirmed categorical columns"
encodeCategorical(ds, cand, raw) ==
    LET nc == ds.numCols
        isCat(col) == At(cand, col) /\ At(raw, col) # << >>
        cats(col) == SortStrings(Range(At(raw, col)))
    IN  [ds EXCEPT
            !.columnMeta = [c \in 1 .. nc |->
                IF isCat(c - 1)
                THEN [isCategorical |-> TRUE, categories |-> cats(c - 1)]
                ELSE NoMeta],
            !.data = [k \in 1 .. Len(ds.data) |->
                LET row == (k - 1) \div nc
                    col == (k - 1) % nc
                IN  IF isCat(col) THEN IndexOf(cats(col), At(At(raw, col), row))
                    ELSE ds.data[k]]]

\* a pruning that starts its comparison one row late
removeConstantColumnsLate(ds) ==
    LET nc == ds.numCols
        constant(col) ==
            \A row \in 2 .. ds.numRows - 1 :
                ~FNe(value(ds, row, col), At(ds.data, col))
        kept == SetToSortedSeq({col \in 0 .. nc - 1 : ~constant(col)})
    IN  IF Len(kept) = nc THEN ds
        ELSE [ds EXCEPT
                !.columnLabels = [j \in 1 .. Len(kept) |-> At(ds.columnLabels, kept[j])],
                !.columnMeta = [j \in 1 .. Len(kept) |-> At(ds.columnMeta, kept[j])],
                !.data = [k \in 1 .. ds.numRows * Len(kept) |->
                            value(ds, (k - 1) \div Len(kept),
                                  kept[((k - 1) % Len(kept)) + 1])],
                !.numCols = Len(kept)]

\* "Remove constant columns (all values identical)"
removeConstantColumns(ds) ==
    LET nc == ds.numCols
        constant(col) ==
            \A row \in 1 .. ds.numRows - 1 :
                ~FNe(value(ds, row, col), At(ds.data, col))
        keep == {col \in 0 .. nc - 1 : ~constant(col)}
        kept == SetToSortedSeq(keep)
    IN  IF Cardinality(keep) = nc THEN ds
        ELSE [ds EXCEPT
                !.columnLabels = [j \in 1 .. Len(kept) |-> At(ds.columnLabels, kept[j])],
                !.columnMeta = [j \in 1 .. Len(kept) |-> At(ds.columnMeta, kept[j])],
                !.data = [k \in 1 .. ds.numRows * Len(kept) |->
                            value(ds, (k - 1) \div Len(kept),
                                  kept[((k - 1) % Len(kept)) + 1])],
                !.numCols = Len(kept)]

DelimiterFor(path, previous) ==
    IF path.size >= 4
    THEN CASE path.ext = "csv" -> ","
           [] path.ext = "tsv" -> "\t"
           [] OTHER -> " "
    ELSE previous

LoadResult(ok, ds, error, delimiter) ==
    [ok |-> ok, data |-> ds, error |-> error, delimiter |-> delimiter]

\* DataManager::loadAsciiFile up to "Remove constant columns": the table as
\* it was ingested and encoded
readAsciiFile(file, previousDelimiter, maxRows, cancelAt) ==
    IF ~file.exists
    THEN LoadResult(FALSE, EmptyDataSet, "Cannot open file", previousDelimiter)
    ELSE
    LET delimiter == DelimiterFor(file.path, previousDelimiter)
        lines == file.lines
        first == FirstNonComment(lines, 1)
    IN  IF first = 0
        THEN LoadResult(FALSE, EmptyDataSet,
                        "File is empty or contains only comments", delimiter)
        ELSE
    LET line == lines[first]
        tokens == splitTokens(line, delimiter)
    IN  IF tokens = << >>
        THEN LoadResult(FALSE, EmptyDataSet, "No data found in file", delimiter)
        ELSE
    LET firstLineIsLabels == \A t \in 1 .. Len(tokens) : ~ParsesAsNumber(tokens[t])
        lastCommentLine == LastCommentLine(lines, first - 1)
        labelTokens == IF lastCommentLine = << >> THEN << >>
                       ELSE splitTokens(Tail(lastCommentLine), delimiter)
        labels == IF firstLineIsLabels THEN tokens
                  ELSE IF lastCommentLine # << >> /\ Len(labelTokens) = Len(tokens)
                       THEN labelTokens
                  ELSE [i \in 1 .. Len(tokens) |-> << "Column_", ToString(i) >>]
        nc == Len(labels)
        st0 == [ds |-> [EmptyDataSet EXCEPT !.columnLabels = labels, !.numCols = nc],
                cand |-> Fill(nc, FALSE),
                raw |-> Fill(nc, << >>),
                firstDataRow |-> TRUE,
                linesRead |-> 0, calls |-> 0, cancelled |-> FALSE]
        read(st1) == ReadRemaining(st1, lines, first + 1, delimiter, maxRows, cancelAt)
        finish(st2) ==
            IF st2.cancelled
            THEN LoadResult(FALSE, st2.ds, "Loading cancelled", delimiter)
            ELSE IF st2.ds.numRows = 0
            THEN LoadResult(FALSE, st2.ds, "No valid data rows found", delimiter)
            ELSE With(encodeCategorical(st2.ds, st2.cand, st2.raw),
                      LAMBDA encoded : LoadResult(TRUE, encoded, "", delimiter))
    IN  With(IF firstLineIsLabels THEN st0 ELSE parseLine(st0, line, delimiter),
             LAMBDA st1 : With(read(st1), finish))

\* the loader's last step: the constant columns leave the table it returns
Pruned(r) == IF r.ok THEN [r EXCEPT !.data = removeConstantColumns(@)] ELSE r

\* DataManager::loadAsciiFile: what it leaves in m_data, m_error and
\* m_delimiter, and what it returns
loadAsciiFile(file, previousDelimiter, maxRows, cancelAt) ==
    With(readAsciiFile(file, previousDelimiter, maxRows, cancelAt), Pruned)

\* DataManager::removeSelectedRows: the new m_data and the number removed
removeSelectedRows(ds, selection) ==
    IF Len(selection) # ds.numRows THEN [data |-> ds, removed |-> 0]
    ELSE LET keptRows == SetToSortedSeq({r \in 0 .. ds.numRows - 1 : At(selection, r) <= 0})
             nc == ds.numCols
         IN  [data |-> [ds EXCEPT
                          !.data = [k \in 1 .. Len(keptRows) * nc |->
                                      value(ds, keptRows[((k - 1) \div nc) + 1], (k - 1) % nc)],
                          !.numRows = Len(keptRows)],
              removed |-> ds.numRows - Len(keptRows)]

\* DataManager::loadParquetFile on a table of numeric columns without nulls,
\* each column in one chunk: file.columns is a sequence of
\* [name, type, values].  The fast path copies float columns as they are; the
\* general path reports progress after the columns 0, 3, 6, ...
readParquetFile(file, previousDelimiter, maxRows, cancelAt) ==
    IF ~file.exists
    THEN LoadResult(FALSE, EmptyDataSet, "Cannot open parquet file", previousDelimiter)
    ELSE
    LET cols == file.columns
        nc == Len(cols)
        tableRows == IF nc = 0 THEN 0 ELSE Len(cols[1].values)
        numRows == IF maxRows > 0 /\ tableRows > maxRows THEN maxRows ELSE tableRows
        canFastPath == \A c \in 1 .. nc : cols[c].type = "float"
        \* m_data once the columns before `upto` are extracted
        extracted(upto) ==
            [columnLabels |-> [c \in 1 .. nc |-> cols[c].name],
             data |-> [k \in 1 .. numRows * nc |->
                         LET row == (k - 1) \div nc
                             col == (k - 1) % nc
                         IN  IF col < upto THEN At(cols[col + 1].values, row) ELSE 0],
             numRows |-> numRows,
             numCols |-> nc,
             columnMeta |-> Fill(nc, NoMeta)]
        cancelCol == 3 * (cancelAt - 1)
    IN  IF nc = 0
        THEN LoadResult(FALSE, EmptyDataSet,
                        "No usable columns found in parquet file", previousDelimiter)
        ELSE IF ~canFastPath /\ cancelAt > 0 /\ cancelCol < nc
        THEN LoadResult(FALSE, extracted(cancelCol + 1), "Loading cancelled",
                        previousDelimiter)
        ELSE LoadResult(TRUE, extracted(nc), "", previousDelimiter)

loadParquetFile(file, previousDelimiter, maxRows, cancelAt) ==
    With(readParquetFile(file, previousDelimiter, maxRows, cancelAt), Pruned)

\* the table DataManager::loadFile ingests, before the constant columns leave
readFile(file, previousDelimiter, maxRows, cancelAt) ==
    IF file.path.ext \in {"parquet", "pq"}
    THEN readParquetFile(file, previousDelimiter, maxRows, cancelAt)
    ELSE readAsciiFile(file, previousDelimiter, maxRows, cancelAt)

\* the decimal digits of a natural number
RECURSIVE Digits(_)
Digits(n) ==
    IF n < 10 THEN << ToString(n) >> ELSE Append(Digits(n \div 10), ToString(n % 10))

\* "file << val" for a float whose magnitude has at most six digits
FormatFloat(val) ==
    IF ~isfinite(val) THEN << "nan" >>
    ELSE IF val < 0 THEN << "-" >> \o Digits(-val)
    ELSE Digits(val)

\* the fields joined with commas
RECURSIVE JoinComma(_)
JoinComma(fields) ==
    IF fields = << >> THEN << >>
    ELSE IF Len(fields) = 1 THEN fields[1]
    ELSE fields[1] \o << "," >> \o JoinComma(Tail(fields))

\* DataManager::saveAsCsv: the file at `path` afterwards; `before` is what
\* was there
saveAsCsv(ds, path, writable, selection, before) ==
    IF ~writable THEN before
    ELSE
    LET filterSelected == selection # << >> /\ Len(selection) = ds.numRows
        field(row, col) ==
            LET val == value(ds, row, col)
            IN  IF col < Len(ds.columnMeta) /\ At(ds.columnMeta, col).isCategorical
                THEN LET cats == At(ds.columnMeta, col).categories
                         \* static_cast<int>(val): val is a category index
                         idx == Max2(0, Min2(val, Len(cats) - 1))
                     IN  At(cats, idx)
                ELSE FormatFloat(val)
        written == SelectSeq([r \in 1 .. ds.numRows |-> r - 1],
                             LAMBDA row : ~(filterSelected /\ At(selection, row) = 0))
    IN  [path |-> path, exists |-> TRUE,
         lines |-> << JoinComma([c \in 1 .. ds.numCols |-> ds.columnLabels[c]]) >>
                   \o [k \in 1 .. Len(written) |->
                         JoinComma([c \in 1 .. ds.numCols |-> field(written[k], c - 1)])]]

\* DataManager::loadFile
loadFile(file, previousDelimiter, maxRows, cancelAt) ==
    IF file.path.ext \in {"parquet", "pq"}
    THEN loadParquetFile(file, previousDelimiter, maxRows, cancelAt)
    ELSE loadAsciiFile(file, previousDelimiter, maxRows, cancelAt)

---------------------------------------------------------------------------
(* MainFrame.cpp: normalization cache, subsampling, plots.                 *)

\* the canvases of the plot grid (m_gridRows * m_gridCols in the program)
NumPlots == 2

Plots == 0 .. NumPlots - 1

\* struct PlotConfig, the fields the data pipeline reads
DefaultPlotConfig ==
    [xCol |-> 0, yCol |-> 1, zCol |-> -1, xLocked |-> FALSE, yLocked |-> FALSE,
     xNorm |-> "MinMax", yNorm |-> "MinMax", zNorm |-> "MinMax"]

\* a normalization whose output depends on where the column lies in the table
NormalizeColumnByIndex(ds, col, mode, g) ==
    IF ds.numRows = 0 THEN << >>
    ELSE With(NormalizeValues(extractColumn(ds, col, g), mode),
              LAMBDA out : [i \in 1 .. Len(out) |->
                               IF isfinite(out[i]) THEN out[i] + col ELSE out[i]])

NormalizeColumn(ds, col, mode, g) ==
    IF ds.numRows = 0 THEN << >>
    ELSE NormalizeValues(extractColumn(ds, col, g), mode)

\* m_normCache after GetNormalized(col, mode): a cached vector is returned as
\* it is, whatever m_data holds now
CacheAfterGet(cache, ds, col, mode, g) ==
    IF << col, mode >> \in DOMAIN cache THEN cache
    ELSE cache @@ (<< col, mode >> :> NormalizeColumn(ds, col, mode, g))

\* the vector GetNormalized(col, mode) returns
GetNormalized(cache, ds, col, mode, g) ==
    CacheAfterGet(cache, ds, col, mode, g)[<< col, mode >>]

\* vals[r]; g is what a read past the end of the vector returns
ValAt(vals, r, g) == IF r < Len(vals) THEN At(vals, r) ELSE g

\* points a plot shows at most (4000000 in the program; the tables of the
\* model are short)
MAX_DISPLAY_POINTS == 6

\* extremes kept per end of each axis (10 in the program)
EXTREME_K == 1

\* operator< of std::pair<float, size_t>
PLess(a, b) == FLt(a[1], b[1]) \/ (~FLt(b[1], a[1]) /\ a[2] < b[2])

PGreater(a, b) == PLess(b, a)

\* the heap's comparison: std::less for bottomK, std::greater for topK
HeapLess(heap, a, b) == IF heap = "bottomK" THEN PLess(a, b) ELSE PGreater(a, b)

\* the elements priority_queue::top() may return.  Among pairs that are all
\* finite or all NaN the order is total and the top is the greatest; when
\* finite values and NaN mix, the comparison is no strict weak order and the
\* heap may hold any of its elements on top.
HeapTops(heap, h) ==
    IF (\E e \in h : isfinite(e[1])) /\ (\E e \in h : ~isfinite(e[1])) THEN h
    ELSE {e \in h : \A f \in h \ {e} : HeapLess(heap, f, e)}

\* one iteration of findExtremes for one of its heaps: the contents it may
\* hold afterwards
HeapStep(heap, h, v, i) ==
    IF Cardinality(h) < EXTREME_K THEN {h \cup {<< v, i >>}}
    ELSE UNION {IF (IF heap = "bottomK" THEN FLt(v, t[1]) ELSE FGt(v, t[1]))
                THEN {(h \cup {<< v, i >>}) \ {t2} :
                        t2 \in HeapTops(heap, h \cup {<< v, i >>})}
                ELSE {h} : t \in HeapTops(heap, h)}

RECURSIVE HeapsFrom(_, _, _, _)
HeapsFrom(heap, vals, i, H) ==
    IF i >= Len(vals) THEN H
    ELSE HeapsFrom(heap, vals, i + 1,
                   UNION {HeapStep(heap, h, At(vals, i), i) : h \in H})

\* the lambda findExtremes: the sets of rows it may append to mustInclude
findExtremes(vals) ==
    LET bottoms == HeapsFrom("bottomK", vals, 0, {{}})
        tops == HeapsFrom("topK", vals, 0, {{}})
    IN  {{e[2] : e \in b \cup t} : b \in bottoms, t \in tops}

\* the display index vectors UpdatePlot may build for a subsampled plot: the
\* extremes of each axis and a reservoir sample of the other rows, sorted.
\* The draws of the generator (seeded per plot) are left open: the reservoir
\* algorithm can end with any `budget` of the other rows.
DisplayIndexChoices(axes, numRows) ==
    LET mustChoices ==
            IF Len(axes) = 2
            THEN {a \cup b : a \in findExtremes(axes[1]), b \in findExtremes(axes[2])}
            ELSE {a \cup b \cup c : a \in findExtremes(axes[1]),
                                    b \in findExtremes(axes[2]),
                                    c \in findExtremes(axes[3])}
        choices(mustInclude) ==
            LET budget == MAX_DISPLAY_POINTS - Cardinality(mustInclude)
                others == (0 .. numRows - 1) \ mustInclude
                taken == Min2(budget, Cardinality(others))
            IN  {SetToSortedSeq(mustInclude \cup reservoir) :
                    reservoir \in {R \in SUBSET others : Cardinality(R) = taken}}
    IN  UNION {choices(m) : m \in mustChoices}

---------------------------------------------------------------------------
(* WebGPUCanvas.cpp: what a view holds of the data.                        *)

\* pan in thousandths of the view's half width, zoom in thousandths
EmptyCanvas ==
    [m_points |-> << >>, m_selection |-> << >>, m_displayIndices |-> << >>,
     m_panX |-> 0, m_panY |-> 0, m_zoomX |-> 1000, m_zoomY |-> 1000]

SetPanZoom(canvas, panX, panY, zoomX, zoomY) ==
    [canvas EXCEPT !.m_panX = panX, !.m_panY = panY,
                   !.m_zoomX = zoomX, !.m_zoomY = zoomY]

SetDisplayIndices(canvas, indices) == [canvas EXCEPT !.m_displayIndices = indices]

SetPoints(canvas, points) ==
    [canvas EXCEPT !.m_points = points, !.m_selection = Fill(Len(points), 0)]

\* WebGPUCanvas::GetOriginalDataRow; -1 stands for static_cast<size_t>(-1)
GetOriginalDataRow(canvas, displayIndex) ==
    IF displayIndex < 0 THEN -1
    ELSE IF canvas.m_displayIndices # << >>
         THEN IF displayIndex < Len(canvas.m_displayIndices)
              THEN At(canvas.m_displayIndices, displayIndex)
              ELSE -1
         ELSE displayIndex

SetSelection(canvas, sel) ==
    LET di == canvas.m_displayIndices
    IN  IF di # << >>
        THEN IF Len(sel) < di[Len(di)] + 1 THEN canvas
             ELSE [canvas EXCEPT !.m_selection = [i \in 1 .. Len(di) |-> At(sel, di[i])]]
        ELSE IF Len(sel) # Len(canvas.m_selection) THEN canvas
             ELSE [canvas EXCEPT !.m_selection = sel]

---------------------------------------------------------------------------
(* MainFrame.cpp: plots.  fs is the part of the frame UpdatePlot works on: *)
(* [cfgs, cache, canvases].  An operator that involves the random sample   *)
(* or a heap of mixed content yields the set of its possible results.      *)

UpdatePlot(fs, ds, sel, plotIndex, g) ==
    IF ds.numRows = 0 THEN {fs}
    ELSE
    LET cfg0 == At(fs.cfgs, plotIndex)
        cfg == [cfg0 EXCEPT !.xCol = IF @ >= ds.numCols THEN 0 ELSE @,
                            !.yCol = IF @ >= ds.numCols THEN 0 ELSE @]
        hasZ == cfg.zCol >= 0 /\ cfg.zCol < ds.numCols
        cache1 == CacheAfterGet(fs.cache, ds, cfg.xCol, cfg.xNorm, g)
        cache2 == CacheAfterGet(cache1, ds, cfg.yCol, cfg.yNorm, g)
        subsampled == ds.numRows > MAX_DISPLAY_POINTS
        build(cache3) ==
            LET xVals == cache3[<< cfg.xCol, cfg.xNorm >>]
                yVals == cache3[<< cfg.yCol, cfg.yNorm >>]
                zVals == IF hasZ THEN cache3[<< cfg.zCol, cfg.zNorm >>] ELSE << >>
                displayChoices ==
                    IF subsampled
                    THEN DisplayIndexChoices(IF hasZ THEN << xVals, yVals, zVals >>
                                             ELSE << xVals, yVals >>, ds.numRows)
                    ELSE {<< >>}
                points(displayIndices) ==
                    [k \in 1 .. (IF subsampled THEN Len(displayIndices)
                                 ELSE ds.numRows) |->
                        LET r == IF subsampled THEN displayIndices[k] ELSE k - 1
                        IN  [x |-> ValAt(xVals, r, g), y |-> ValAt(yVals, r, g),
                             z |-> IF hasZ THEN ValAt(zVals, r, g) ELSE 0]]
                canvas(displayIndices) ==
                    LET shown == SetPoints(SetDisplayIndices(At(fs.canvases, plotIndex),
                                                             displayIndices),
                                           points(displayIndices))
                    IN  IF sel # << >> THEN SetSelection(shown, sel) ELSE shown
            IN  {[cfgs |-> [fs.cfgs EXCEPT ![plotIndex + 1] = cfg],
                  cache |-> cache3,
                  canvases |-> [fs.canvases EXCEPT ![plotIndex + 1] = canvas(di)]] :
                    di \in displayChoices}
    IN  With(IF hasZ THEN CacheAfterGet(cache2, ds, cfg.zCol, cfg.zNorm, g) ELSE cache2,
             build)

\* the pre-normalizing loop of UpdateAllPlots, from plot i on
RECURSIVE PreNormalize(_, _, _, _, _)
PreNormalize(cache, cfgs, ds, i, g) ==
    IF i >= NumPlots \/ ds.numRows = 0 THEN cache
    ELSE LET cfg == At(cfgs, i)
             xc == IF ds.numCols = 0 THEN cfg.xCol ELSE Min2(cfg.xCol, ds.numCols - 1)
             yc == IF ds.numCols = 0 THEN cfg.yCol ELSE Min2(cfg.yCol, ds.numCols - 1)
             cache1 == CacheAfterGet(cache, ds, xc, cfg.xNorm, g)
             cache2 == CacheAfterGet(cache1, ds, yc, cfg.yNorm, g)
             cache3 == IF cfg.zCol >= 0 /\ cfg.zCol < ds.numCols
                       THEN CacheAfterGet(cache2, ds, cfg.zCol, cfg.zNorm, g)
                       ELSE cache2
         IN  PreNormalize(cache3, cfgs, ds, i + 1, g)

RECURSIVE UpdatePlotsFrom(_, _, _, _, _)
UpdatePlotsFrom(FS, ds, sel, i, g) ==
    IF i >= NumPlots THEN FS
    ELSE With(UNION {UpdatePlot(fs, ds, sel, i, g) : fs \in FS},
              LAMBDA updated : UpdatePlotsFrom(updated, ds, sel, i + 1, g))

UpdateAllPlots(fs, ds, sel, g) ==
    With(PreNormalize(fs.cache, fs.cfgs, ds, 0, g),
         LAMBDA cache : UpdatePlotsFrom({[fs EXCEPT !.cache = cache]}, ds, sel, 0, g))

\* PropagateSelection: the canvases once the active plot has the selection
\* (the other plots get it from the closure queued with CallAfter)
PropagateToActive(canvases, activePlot, selection) ==
    [canvases EXCEPT ![activePlot + 1] = SetSelection(@, selection)]

\* the closure PropagateSelection queues, run with the m_activePlot of now
DeferredPropagate(canvases, activePlot, selection) ==
    [i \in 1 .. NumPlots |->
        IF i - 1 # activePlot THEN SetSelection(canvases[i], selection)
        ELSE canvases[i]]

---------------------------------------------------------------------------
(* The files the user opens.                                               *)

\* s.csv: a header line, two numeric columns and a column of strings
ScenarioCsv ==
    [path |-> [size |-> 5, ext |-> "csv"], exists |-> TRUE,
     lines |-> << << "a", ",", "b", ",", "c" >>,
                  << "1", ",", "2", ",", "x" >>,
                  << "3", ",", "4", ",", "y" >>,
                  << "5", ",", "6", ",", "x" >> >>]

\* d.txt: whitespace separated, the labels in a comment line
ShortTxt ==
    [path |-> [size |-> 5, ext |-> "txt"], exists |-> TRUE,
     lines |-> << << "#", "x", " ", "y" >>,
                  << "1", " ", "9" >>,
                  << "2", " ", "5" >> >>]

\* m.csv: a path that cannot be opened
MissingCsv ==
    [path |-> [size |-> 5, ext |-> "csv"], exists |-> FALSE, lines |-> << >>]

TextFiles == {ScenarioCsv, ShortTxt, MissingCsv}

\* n.parquet: two float columns without nulls in one chunk each, one row more
\* than a plot shows; the first x is NaN
NaNTable ==
    [path |-> [size |-> 9, ext |-> "parquet"], exists |-> TRUE,
     columns |-> << [name |-> << "x" >>, type |-> "float",
                     values |-> << NaN, 5, 1, 9, 3, 4, 6 >>],
                    [name |-> << "y" >>, type |-> "float",
                     values |-> << 1, 2, 3, 4, 5, 6, 7 >>] >>]

\* t.parquet: as long, all values finite, the least and the greatest value of
\* each column in two rows
TiesTable ==
    [path |-> [size |-> 9, ext |-> "parquet"], exists |-> TRUE,
     columns |-> << [name |-> << "x" >>, type |-> "float",
                     values |-> << 2, 2, 7, 7, 3, 4, 5 >>],
                    [name |-> << "y" >>, type |-> "float",
                     values |-> << 1, 1, 4, 6, 6, 2, 3 >>] >>]

Tables == {NaNTable, TiesTable}

\* g.parquet: a column of negative and positive values, and one whose
\* greatest value is negative
SignsTable ==
    [path |-> [size |-> 9, ext |-> "parquet"], exists |-> TRUE,
     columns |-> << [name |-> << "x" >>, type |-> "float",
                     values |-> << -3, -1, 0, 2 >>],
                    [name |-> << "y" >>, type |-> "float",
                     values |-> << -5, -2, -2, -1 >>] >>]

\* h.parquet: a column with NaN and two equal values, and a plain column
\* that starts at 1
GapsTable ==
    [path |-> [size |-> 9, ext |-> "parquet"], exists |-> TRUE,
     columns |-> << [name |-> << "x" >>, type |-> "float",
                     values |-> << NaN, 4, 4, 9 >>],
                    [name |-> << "y" >>, type |-> "float",
                     values |-> << 1, 2, 3, 5 >>] >>]

\* r.parquet: the column 1..5 and a column of even numbers
RampTable ==
    [path |-> [size |-> 9, ext |-> "parquet"], exists |-> TRUE,
     columns |-> << [name |-> << "x" >>, type |-> "float",
                     values |-> << 1, 2, 3, 4, 5 >>],
                    [name |-> << "y" >>, type |-> "float",
                     values |-> << 2, 6, 4, 10, 8 >>] >>]

\* w.parquet: two columns with the same values, a NaN and a tie among them
TwinTable ==
    [path |-> [size |-> 9, ext |-> "parquet"], exists |-> TRUE,
     columns |-> << [name |-> << "x" >>, type |-> "float",
                     values |-> << 3, 1, NaN, 1 >>],
                    [name |-> << "y" >>, type |-> "float",
                     values |-> << 3, 1, NaN, 1 >>] >>]

ShortTables == {SignsTable, GapsTable, RampTable}

TwinTables == {GapsTable, TwinTable}

\* k.csv: a header, a column of words, a column of numbers and a column
\* that holds 7 in every row
WordsCsv ==
    [path |-> [size |-> 5, ext |-> "csv"], exists |-> TRUE,
     lines |-> << << "k", ",", "n", ",", "c" >>,
                  << "x", ",", "1", ",", "7" >>,
                  << "y", ",", "2", ",", "7" >>,
                  << "x", ",", "3", ",", "7" >>,
                  << "z", ",", "4", ",", "7" >>,
                  << "z", ",", "5", ",", "7" >> >>]

\* o.csv: no header; the first column holds a word, an empty field and a
\* number
OddCsv ==
    [path |-> [size |-> 5, ext |-> "csv"], exists |-> TRUE,
     lines |-> << << "x", ",", "1" >>,
                  << ",", "2" >>,
                  << "5", ",", "3" >>,
                  << "x", ",", "4" >> >>]

StoreFiles == {WordsCsv, OddCsv}

\* t.tsv: two numeric columns separated by tabs, no header
TabTsv ==
    [path |-> [size |-> 5, ext |-> "tsv"], exists |-> TRUE,
     lines |-> << << "1", "\t", "2" >>,
                  << "3", "\t", "5" >> >>]

\* /ab: a path of three characters without extension; the lines hold commas
BareFile ==
    [path |-> [size |-> 3, ext |-> ""], exists |-> TRUE,
     lines |-> << << "1", ",", "2" >>,
                  << "3", ",", "4" >> >>]

DelimiterFiles == {ScenarioCsv, ShortTxt, TabTsv, BareFile}

\* the paths the user gives the save dialog
CsvPath == [size |-> 8, ext |-> "csv"]

TxtPath == [size |-> 8, ext |-> "txt"]

SavePaths == {CsvPath, TxtPath}

AllFiles == TextFiles \cup Tables \cup ShortTables \cup TwinTables \cup StoreFiles
            \cup DelimiterFiles

\* the progress callback returns false at its cancelAt-th call; 0: never
MaxCancelAt == 1

\* the row limits of the command line's -n option; 0: no limit
MaxRowsLimit == 2

\* the path OnSave writes before the first save: nothing is there
NoFile == [path |-> CsvPath, exists |-> FALSE, lines |-> << >>]

\* the brush buttons pressed in the model: "All Brushes" is -1
BrushIndices == {-1, 0, 7}

\* brush rectangles << x0, y0, x1, y1 >> in thousandths: the left edge of a
\* plot, and its upper right quarter dragged from the top right corner
BrushRects == { << -900, -900, -900, 900 >>,
                << 900, 900, 0, 0 >> }

\* the views << panX, panY, zoomX, zoomY >> a gesture leaves: panned and
\* zoomed in, and back at the start
ViewChoices == { << 250, -500, 2000, 4000 >>, << 0, 0, 1000, 1000 >> }

\* the columns the user picks in the axis choices of the control panel
AxisChoices == 0 .. 1

\* closures waiting in the event queue at most
MaxPending == 1

\* events the loop handles at most before it runs a waiting closure
MaxWait == 1

\* the process is alive: no handler has trapped
Running == last.op # "Crashed"

\* the event loop takes another event before the closures that wait
Handles == Running /\ (pending = << >> \/ waited < MaxWait)

Waited == IF pending = << >> THEN 0 ELSE waited + 1

---------------------------------------------------------------------------
(* The state after construction.                                           *)

EmptyCache == [key \in {} |-> << >>]

\* the handler that ran, and whether it extended the selection
Done(op, extend) == [op |-> op, extend |-> extend]

Init ==
    /\ m_data = EmptyDataSet
    /\ m_error = ""
    /\ m_delimiter = " "
    /\ m_selection = << >>
    /\ m_activeBrush = 1
    /\ cp_activeBrush = 0
    /\ m_activePlot = 0
    /\ m_plotConfigs = Fill(NumPlots, DefaultPlotConfig)
    /\ m_normCache = EmptyCache
    /\ m_canvases = Fill(NumPlots, EmptyCanvas)
    /\ pending = << >>
    /\ waited = 0
    /\ m_maxRows = 0
    /\ savedFile = NoFile
    /\ last = Done("Init", FALSE)

---------------------------------------------------------------------------
(* The handlers.                                                           *)

\* what DataManager::loadFile does with each file of the model, with each
\* m_delimiter a previous load may have left
LoadOutcome ==
    [file \in AllFiles, previousDelimiter \in {" ", ",", "\t"},
     maxRows \in 0 .. MaxRowsLimit, cancelAt \in 0 .. MaxCancelAt |->
        loadFile(file, previousDelimiter, maxRows, cancelAt)]

\* "(i * 2) % ds.numCols" of the auto-assignment.  With no column left the
\* division by zero is undefined: the build's division traps, or it yields
\* zero and the remainder is the dividend.
DivisionOutcomes(numCols) ==
    IF numCols = 0 THEN {"trap", "dividend"} ELSE {"defined"}

Remainder(k, numCols) == IF numCols = 0 THEN k ELSE k % numCols

\* MainFrame::LoadFile; the user cancels at the cancelAt-th progress report
LoadFile(file, cancelAt) ==
    \E r \in {IF file \in AllFiles
              THEN LoadOutcome[file, m_delimiter, m_maxRows, cancelAt]
              ELSE loadFile(file, m_delimiter, m_maxRows, cancelAt)} :
    LET ds == r.data
        zeros == Fill(ds.numRows, 0)
        cfgs == [i \in 1 .. NumPlots |->
                    [DefaultPlotConfig EXCEPT
                        !.xCol = Remainder((i - 1) * 2, ds.numCols),
                        !.yCol = Remainder((i - 1) * 2 + 1, ds.numCols)]]
    IN  /\ Handles
        /\ waited' = Waited
        /\ m_data' = ds
        /\ m_error' = r.error
        /\ m_delimiter' = r.delimiter
        /\ UNCHANGED << m_maxRows, savedFile, m_activeBrush, cp_activeBrush, pending >>
        /\ IF ~r.ok
           THEN /\ last' = Done("LoadFile", FALSE)
                /\ UNCHANGED << m_selection, m_activePlot, m_plotConfigs, m_normCache,
                                m_canvases >>
           ELSE /\ m_selection' = zeros
                /\ \E outcome \in DivisionOutcomes(ds.numCols) :
                      IF outcome = "trap"
                      THEN /\ last' = Done("Crashed", FALSE)
                           /\ m_normCache' = EmptyCache
                           /\ UNCHANGED << m_activePlot, m_plotConfigs, m_canvases >>
                      ELSE /\ last' = Done("LoadFile", FALSE)
                           /\ \E g \in Garbage :
                              \E fs \in UpdateAllPlots([cfgs |-> cfgs, cache |-> EmptyCache,
                                                        canvases |-> m_canvases], ds, zeros, g) :
                                 /\ m_plotConfigs' = fs.cfgs
                                 /\ m_normCache' = fs.cache
                                 /\ m_canvases' = fs.canvases
                           /\ m_activePlot' = 0

\* a frame that took the control panel's index as it comes
onBrushChangedUnmapped(brushIndex) == brushIndex

\* the frame's onBrushChanged: the m_activeBrush it sets
onBrushChanged(brushIndex) == IF brushIndex = 0 THEN 1 ELSE brushIndex

\* ControlPanel::SelectBrush
SelectBrush(index) ==
    /\ Handles
    /\ waited' = Waited
    /\ cp_activeBrush' = index
    /\ m_activeBrush' = IF index >= 0 THEN onBrushChanged(index) ELSE m_activeBrush
    /\ last' = Done("SelectBrush", FALSE)
    /\ UNCHANGED << m_maxRows, savedFile, m_data, m_error, m_delimiter, m_selection, m_activePlot,
                    m_plotConfigs, m_normCache, m_canvases, pending >>

\* m_selection after the loops of HandleBrushRect.  oobHits: the rows whose
\* test read past the end of xVals or yVals and came out true.
BrushedSelection(selection, numRows, xVals, yVals, rect, activeBrush, extend, oobHits) ==
    LET rectMinX == Min2(rect[1], rect[3])
        rectMaxX == Max2(rect[1], rect[3])
        rectMinY == Min2(rect[2], rect[4])
        rectMaxY == Max2(rect[2], rect[4])
        sized == IF Len(selection) # numRows THEN Fill(numRows, 0) ELSE selection
        cleared == IF ~extend
                   THEN [i \in 1 .. numRows |->
                            IF sized[i] = activeBrush THEN 0 ELSE sized[i]]
                   ELSE sized
        xInside(r) == IF r < Len(xVals)
                      THEN FGe(At(xVals, r), rectMinX) /\ FLe(At(xVals, r), rectMaxX)
                      ELSE r \in oobHits
        yInside(r) == IF r < Len(yVals)
                      THEN FGe(At(yVals, r), rectMinY) /\ FLe(At(yVals, r), rectMaxY)
                      ELSE r \in oobHits
    IN  [i \in 1 .. numRows |->
            IF xInside(i - 1) /\ yInside(i - 1) THEN activeBrush ELSE cleared[i]]

\* a HandleBrushRect that leaves the selection alone when the brushing
\* plot's x axis is locked
BrushResultsUnlessLocked(cfgs, canvases, cache, ds, selection, activeBrush, activePlot, plotIndex, rect, extend) ==
    LET cfg == At(cfgs, plotIndex)
    IN  {[selection |-> IF cfg.xLocked THEN selection ELSE sel,
          cache |-> cache,
          canvases |-> PropagateToActive(canvases, activePlot,
                                         IF cfg.xLocked THEN selection ELSE sel)] :
            sel \in {BrushedSelection(selection, ds.numRows,
                                      GetNormalized(cache, ds, cfg.xCol, cfg.xNorm, 0),
                                      GetNormalized(cache, ds, cfg.yCol, cfg.yNorm, 0),
                                      rect, activeBrush, extend, {})}}

\* what MainFrame::HandleBrushRect leaves in m_selection, m_normCache and
\* m_canvases when the table has rows: one result for each outcome of the
\* reads past the end of a vector
BrushResults(cfgs, canvases, cache, ds, selection, activeBrush, activePlot, plotIndex, rect, extend) ==
    LET cfg == At(cfgs, plotIndex)
        after(g) == CacheAfterGet(CacheAfterGet(cache, ds, cfg.xCol, cfg.xNorm, g),
                                  ds, cfg.yCol, cfg.yNorm, g)
        results(cache2) ==
            LET xVals == cache2[<< cfg.xCol, cfg.xNorm >>]
                yVals == cache2[<< cfg.yCol, cfg.yNorm >>]
                pastEnd == {r \in 0 .. ds.numRows - 1 :
                                r >= Len(xVals) \/ r >= Len(yVals)}
            IN  {[selection |-> sel,
                  cache |-> cache2,
                  canvases |-> PropagateToActive(canvases, activePlot, sel)] :
                    sel \in {BrushedSelection(selection, ds.numRows, xVals, yVals,
                                              rect, activeBrush, extend, oobHits) :
                                oobHits \in SUBSET pastEnd}}
    IN  UNION {With(after(g), results) : g \in Garbage}

\* MainFrame::HandleBrushRect
HandleBrushRect(plotIndex, rect, extend) ==
    /\ Handles
    /\ waited' = Waited
    /\ Len(pending) < MaxPending
    /\ last' = Done("HandleBrushRect", extend)
    /\ IF m_data.numRows = 0
       THEN UNCHANGED << m_selection, m_normCache, m_canvases, pending >>
       ELSE \E res \in BrushResults(m_plotConfigs, m_canvases, m_normCache, m_data,
                                    m_selection, m_activeBrush, m_activePlot,
                                    plotIndex, rect, extend) :
                /\ m_normCache' = res.cache
                /\ m_selection' = res.selection
                /\ m_canvases' = res.canvases
                /\ pending' = Append(pending, res.selection)
    /\ UNCHANGED << m_maxRows, savedFile, m_data, m_error, m_delimiter, m_activeBrush,
                    cp_activeBrush, m_activePlot, m_plotConfigs >>

\* MainFrame::ClearAllSelections
ClearAllSelections ==
    /\ Handles
    /\ waited' = Waited
    /\ Len(pending) < MaxPending
    /\ LET selection == Fill(Len(m_selection), 0)
       IN  /\ m_selection' = selection
           /\ m_canvases' = PropagateToActive(m_canvases, m_activePlot, selection)
           /\ pending' = Append(pending, selection)
    /\ last' = Done("ClearAllSelections", FALSE)
    /\ UNCHANGED << m_maxRows, savedFile, m_data, m_error, m_delimiter, m_activeBrush, cp_activeBrush,
                    m_activePlot, m_plotConfigs, m_normCache >>

\* an invert that takes the rows of other brushes for unselected
InvertedOfBrush(selection, activeBrush) ==
    [i \in 1 .. Len(selection) |->
        IF selection[i] = activeBrush THEN 0 ELSE activeBrush]

\* an invert that wrote brush 1 whatever brush is active
InvertedWithOne(selection, activeBrush) ==
    [i \in 1 .. Len(selection) |-> IF selection[i] = 0 THEN 1 ELSE 0]

\* the loop of MainFrame::InvertAllSelections
Inverted(selection, activeBrush) ==
    [i \in 1 .. Len(selection) |-> IF selection[i] = 0 THEN activeBrush ELSE 0]

\* MainFrame::InvertAllSelections
InvertAllSelections ==
    /\ Handles
    /\ waited' = Waited
    /\ Len(pending) < MaxPending
    /\ LET selection == Inverted(m_selection, m_activeBrush)
       IN  /\ m_selection' = selection
           /\ m_canvases' = PropagateToActive(m_canvases, m_activePlot, selection)
           /\ pending' = Append(pending, selection)
    /\ last' = Done("InvertAllSelections", FALSE)
    /\ UNCHANGED << m_maxRows, savedFile, m_data, m_error, m_delimiter, m_activeBrush, cp_activeBrush,
                    m_activePlot, m_plotConfigs, m_normCache >>

\* MainFrame::KillSelectedPoints
KillSelectedPoints ==
    /\ Handles
    /\ waited' = Waited
    /\ Len(pending) < MaxPending
    /\ LET count == Cardinality({i \in 1 .. Len(m_selection) : m_selection[i] > 0})
           r == removeSelectedRows(m_data, m_selection)
           zeros == Fill(r.data.numRows, 0)
       IN  IF count = 0 \/ r.removed = 0
           THEN /\ last' = Done("KillSelectedPoints", FALSE)
                /\ UNCHANGED << m_data, m_selection, m_plotConfigs, m_normCache,
                                m_canvases, pending >>
           ELSE /\ last' = Done("KillSelectedPoints", FALSE)
                /\ m_data' = r.data
                /\ m_selection' = zeros
                /\ \E g \in Garbage :
                   \E fs \in UpdateAllPlots([cfgs |-> m_plotConfigs, cache |-> EmptyCache,
                                             canvases |-> m_canvases], r.data, zeros, g) :
                      /\ m_plotConfigs' = fs.cfgs
                      /\ m_normCache' = fs.cache
                      /\ m_canvases' = PropagateToActive(fs.canvases, m_activePlot, zeros)
                /\ pending' = Append(pending, zeros)
    /\ UNCHANGED << m_maxRows, savedFile, m_error, m_delimiter, m_activeBrush, cp_activeBrush, m_activePlot >>

\* the frame's onNormChanged: the user picks normalization modes for a plot
onNormChanged(plotIndex, xNorm, yNorm) ==
    /\ Handles
    /\ waited' = Waited
    /\ \E g \in Garbage :
       \E fs \in UpdatePlot([cfgs |-> [m_plotConfigs EXCEPT
                                          ![plotIndex + 1].xNorm = xNorm,
                                          ![plotIndex + 1].yNorm = yNorm],
                              cache |-> m_normCache,
                              canvases |-> m_canvases],
                             m_data, m_selection, plotIndex, g) :
          /\ m_plotConfigs' = fs.cfgs
          /\ m_normCache' = fs.cache
          /\ m_canvases' = fs.canvases
    /\ last' = Done("onNormChanged", FALSE)
    /\ UNCHANGED << m_maxRows, savedFile, m_data, m_error, m_delimiter, m_selection, m_activeBrush,
                    cp_activeBrush, m_activePlot, pending >>

\* MainFrame::SetActivePlot, from a click on a plot or on its tab
SetActivePlot(plotIndex) ==
    /\ Handles
    /\ waited' = Waited
    /\ m_activePlot' = plotIndex
    /\ last' = Done("SetActivePlot", FALSE)
    /\ UNCHANGED << m_maxRows, savedFile, m_data, m_error, m_delimiter, m_selection, m_activeBrush,
                    cp_activeBrush, m_plotConfigs, m_normCache, m_canvases, pending >>

\* the axis choices list the columns of the table
ShownChoices == AxisChoices \cap (0 .. m_data.numCols - 1)

\* MainFrame::DefaultNormForColumn
DefaultNormForColumn(ds, col) ==
    IF col >= ds.numCols THEN "MinMax"
    ELSE IF /\ \E r \in 0 .. ds.numRows - 1 : FGt(value(ds, r, col), 0)
            /\ \E r \in 0 .. ds.numRows - 1 : FLt(value(ds, r, col), 0)
         THEN "MaxAbs"
    ELSE "MinMax"

\* the frame's onAxisChanged: the user picks the columns of a plot
onAxisChanged(plotIndex, xCol, yCol) ==
    /\ Handles
    /\ waited' = Waited
    /\ \E g \in Garbage :
       \E fs \in UpdatePlot([cfgs |-> [m_plotConfigs EXCEPT
                                         ![plotIndex + 1].xCol = xCol,
                                         ![plotIndex + 1].yCol = yCol,
                                         ![plotIndex + 1].xNorm = DefaultNormForColumn(m_data, xCol),
                                         ![plotIndex + 1].yNorm = DefaultNormForColumn(m_data, yCol)],
                              cache |-> m_normCache, canvases |-> m_canvases],
                             m_data, m_selection, plotIndex, g) :
          /\ m_plotConfigs' = fs.cfgs
          /\ m_normCache' = fs.cache
          /\ m_canvases' = fs.canvases
    /\ last' = Done("onAxisChanged", FALSE)
    /\ UNCHANGED << m_maxRows, savedFile, m_data, m_error, m_delimiter, m_selection,
                    m_activeBrush, cp_activeBrush, m_activePlot, pending >>

\* the frame's onAxisLockChanged: the user ticks the lock boxes of a plot
onAxisLockChanged(plotIndex, xLock, yLock) ==
    /\ Handles
    /\ waited' = Waited
    /\ m_plotConfigs' = [m_plotConfigs EXCEPT ![plotIndex + 1].xLocked = xLock,
                                              ![plotIndex + 1].yLocked = yLock]
    /\ last' = Done("onAxisLockChanged", FALSE)
    /\ UNCHANGED << m_maxRows, savedFile, m_data, m_error, m_delimiter, m_selection,
                    m_activeBrush, cp_activeBrush, m_activePlot, m_normCache,
                    m_canvases, pending >>

\* the body of the loop of onViewChanged: the view of plot j once plot pi
\* has reported panX, panY, zoomX, zoomY
LinkedView(srcCfg, dstCfg, canvas, panX, panY, zoomX, zoomY) ==
    LET dst0 == [panX |-> canvas.m_panX, panY |-> canvas.m_panY,
                 zoomX |-> canvas.m_zoomX, zoomY |-> canvas.m_zoomY,
                 needsUpdate |-> FALSE]
        dst1 == IF srcCfg.xLocked
                THEN IF dstCfg.xCol = srcCfg.xCol
                     THEN [dst0 EXCEPT !.panX = panX, !.zoomX = zoomX, !.needsUpdate = TRUE]
                     ELSE IF dstCfg.yCol = srcCfg.xCol
                     THEN [dst0 EXCEPT !.panY = panX, !.zoomY = zoomX, !.needsUpdate = TRUE]
                     ELSE dst0
                ELSE dst0
        dst2 == IF srcCfg.yLocked
                THEN IF dstCfg.yCol = srcCfg.yCol
                     THEN [dst1 EXCEPT !.panY = panY, !.zoomY = zoomY, !.needsUpdate = TRUE]
                     ELSE IF dstCfg.xCol = srcCfg.yCol
                     THEN [dst1 EXCEPT !.panX = panY, !.zoomX = zoomY, !.needsUpdate = TRUE]
                     ELSE dst1
                ELSE dst1
    IN  IF dst2.needsUpdate
        THEN SetPanZoom(canvas, dst2.panX, dst2.panY, dst2.zoomX, dst2.zoomY)
        ELSE canvas

\* a pan or zoom gesture on the canvas of plot pi (WebGPUCanvas::OnMouse,
\* OnMagnify): the canvas takes the new view and reports it with
\* onViewChanged, which carries it to the plots that share a locked column
onViewChanged(pi, panX, panY, zoomX, zoomY) ==
    /\ Handles
    /\ waited' = Waited
    /\ m_canvases' = [j \in 1 .. NumPlots |->
                        IF j - 1 = pi
                        THEN SetPanZoom(m_canvases[j], panX, panY, zoomX, zoomY)
                        ELSE LinkedView(At(m_plotConfigs, pi), m_plotConfigs[j],
                                        m_canvases[j], panX, panY, zoomX, zoomY)]
    /\ last' = Done("onViewChanged", FALSE)
    /\ UNCHANGED << m_maxRows, savedFile, m_data, m_error, m_delimiter, m_selection,
                    m_activeBrush, cp_activeBrush, m_activePlot, m_plotConfigs,
                    m_normCache, pending >>

\* MainFrame::SetMaxRows, which the application calls with the -n option
\* before it loads the first file
SetMaxRows(maxRows) ==
    /\ last.op = "Init"
    /\ maxRows > 0
    /\ m_maxRows' = maxRows
    /\ last' = Done("SetMaxRows", FALSE)
    /\ UNCHANGED << savedFile, m_data, m_error, m_delimiter, m_selection, m_activeBrush,
                    cp_activeBrush, m_activePlot, m_plotConfigs, m_normCache,
                    m_canvases, pending, waited >>

\* MainFrame::OnSave with a path that does not end in ".parquet": the
\* dialog's answer is the path (writable or not) or, with FALSE, a cancel
OnSave(selectedOnly, answered, path, writable) ==
    /\ Handles
    /\ waited' = Waited
    /\ last' = Done("OnSave", FALSE)
    /\ LET count == Cardinality({i \in 1 .. Len(m_selection) : m_selection[i] > 0})
       IN  IF m_data.numRows = 0 \/ (selectedOnly /\ count = 0) \/ ~answered
           THEN UNCHANGED savedFile
           ELSE savedFile' = saveAsCsv(m_data, path, writable,
                                       IF selectedOnly THEN m_selection ELSE << >>,
                                       savedFile)
    /\ UNCHANGED << m_maxRows, m_data, m_error, m_delimiter, m_selection, m_activeBrush,
                    cp_activeBrush, m_activePlot, m_plotConfigs, m_normCache,
                    m_canvases, pending >>

\* the event loop runs the oldest closure queued by PropagateSelection
RunDeferred ==
    /\ Running
    /\ pending # << >>
    /\ m_canvases' = DeferredPropagate(m_canvases, m_activePlot, Head(pending))
    /\ pending' = Tail(pending)
    /\ waited' = 0
    /\ last' = Done("RunDeferred", FALSE)
    /\ UNCHANGED << m_maxRows, savedFile, m_data, m_error, m_delimiter, m_selection, m_activeBrush,
                    cp_activeBrush, m_activePlot, m_plotConfigs, m_normCache >>

Next ==
    \/ \E file \in AllFiles \cup {savedFile}, cancelAt \in 0 .. MaxCancelAt :
          LoadFile(file, cancelAt)
    \/ \E index \in BrushIndices : SelectBrush(index)
    \/ \E plotIndex \in Plots, rect \in BrushRects, extend \in BOOLEAN :
          HandleBrushRect(plotIndex, rect, extend)
    \/ ClearAllSelections
    \/ InvertAllSelections
    \/ KillSelectedPoints
    \/ \E plotIndex \in Plots : SetActivePlot(plotIndex)
    \/ \E plotIndex \in Plots, xNorm \in NormModes, yNorm \in NormModes :
          onNormChanged(plotIndex, xNorm, yNorm)
    \/ \E plotIndex \in Plots, xCol \in ShownChoices, yCol \in ShownChoices :
          onAxisChanged(plotIndex, xCol, yCol)
    \/ \E plotIndex \in Plots, xLock \in BOOLEAN, yLock \in BOOLEAN :
          onAxisLockChanged(plotIndex, xLock, yLock)
    \/ \E pi \in Plots, view \in ViewChoices :
          onViewChanged(pi, view[1], view[2], view[3], view[4])
    \/ \E maxRows \in 1 .. MaxRowsLimit : SetMaxRows(maxRows)
    \/ \E selectedOnly \in BOOLEAN, answered \in BOOLEAN, path \in SavePaths,
          writable \in BOOLEAN : OnSave(selectedOnly, answered, path, writable)
    \/ RunDeferred

Spec == Init /\ [][Next]_vars

\* Loading, choosing brushes and selecting, with plot 0 the active plot: the
\* user works on the selection and leaves the tabs alone.
NextSelect ==
    \/ \E file \in {ScenarioCsv, MissingCsv}, cancelAt \in 0 .. MaxCancelAt :
          LoadFile(file, cancelAt)
    \/ \E index \in BrushIndices : SelectBrush(index)
    \/ \E plotIndex \in Plots, rect \in BrushRects, extend \in BOOLEAN :
          HandleBrushRect(plotIndex, rect, extend)
    \/ ClearAllSelections
    \/ InvertAllSelections
    \/ KillSelectedPoints
    \/ RunDeferred

SpecSelect == Init /\ [][NextSelect]_vars

\* Selecting while the user moves between the plots: loads that succeed, brush
\* rectangles, clear, clicks on plots and tabs.
NextFanOut ==
    \/ \E file \in {ScenarioCsv, TiesTable} : LoadFile(file, 0)
    \/ \E plotIndex \in Plots, rect \in BrushRects, extend \in BOOLEAN :
          HandleBrushRect(plotIndex, rect, extend)
    \/ ClearAllSelections
    \/ \E plotIndex \in Plots : SetActivePlot(plotIndex)
    \/ RunDeferred

SpecFanOut == Init /\ [][NextFanOut]_vars

\* Tables longer than a plot shows: loads that succeed, selecting, inverting
\* and removing rows, plot 0 the active plot.
NextSub ==
    \/ \E file \in Tables : LoadFile(file, 0)
    \/ \E plotIndex \in Plots, rect \in BrushRects, extend \in BOOLEAN :
          HandleBrushRect(plotIndex, rect, extend)
    \/ InvertAllSelections
    \/ KillSelectedPoints
    \/ RunDeferred

SpecSub == Init /\ [][NextSub]_vars

\* The Column Store: text files are loaded with and without a row limit,
\* rows are selected and killed.
NextStore ==
    \/ \E maxRows \in 1 .. MaxRowsLimit : SetMaxRows(maxRows)
    \/ \E file \in StoreFiles, cancelAt \in 0 .. MaxCancelAt : LoadFile(file, cancelAt)
    \/ \E rect \in BrushRects : HandleBrushRect(0, rect, FALSE)
    \/ KillSelectedPoints
    \/ RunDeferred

SpecStore == Init /\ [][NextStore]_vars

\* Save and load back: a text file is loaded, rows are selected and killed,
\* the table is written as CSV and the written file is loaded.
NextSave ==
    \/ \E file \in StoreFiles \cup {savedFile} : LoadFile(file, 0)
    \/ \E rect \in BrushRects : HandleBrushRect(0, rect, FALSE)
    \/ KillSelectedPoints
    \/ \E answered \in BOOLEAN : OnSave(FALSE, answered, CsvPath, TRUE)
    \/ RunDeferred

SpecSave == Init /\ [][NextSave]_vars

\* Linked axes: a two-column file is loaded, the user picks columns and
\* locks, and pans and zooms.
NextLink ==
    \/ LoadFile(ShortTxt, 0)
    \/ \E plotIndex \in Plots, xCol \in ShownChoices, yCol \in ShownChoices :
          onAxisChanged(plotIndex, xCol, yCol)
    \/ \E plotIndex \in Plots, xLock \in BOOLEAN, yLock \in BOOLEAN :
          onAxisLockChanged(plotIndex, xLock, yLock)
    \/ \E pi \in Plots, view \in ViewChoices :
          onViewChanged(pi, view[1], view[2], view[3], view[4])

SpecLink == Init /\ [][NextLink]_vars

\* Locks and brushing: the file is loaded, axes are locked, the views are
\* panned and zoomed, and rows are brushed.
NextLockBrush ==
    \/ LoadFile(ShortTxt, 0)
    \/ \E plotIndex \in Plots, xLock \in BOOLEAN, yLock \in BOOLEAN :
          onAxisLockChanged(plotIndex, xLock, yLock)
    \/ \E pi \in Plots, view \in ViewChoices :
          onViewChanged(pi, view[1], view[2], view[3], view[4])
    \/ \E plotIndex \in Plots, rect \in BrushRects, extend \in BOOLEAN :
          HandleBrushRect(plotIndex, rect, extend)
    \/ RunDeferred

SpecLockBrush == Init /\ [][NextLockBrush]_vars

\* Save Selected: text files are loaded (the user may cancel), rows are
\* brushed and the selected rows are written as text.
NextSaveSelected ==
    \/ \E file \in StoreFiles, cancelAt \in 0 .. MaxCancelAt : LoadFile(file, cancelAt)
    \/ \E rect \in BrushRects : HandleBrushRect(0, rect, FALSE)
    \/ \E answered \in BOOLEAN, path \in SavePaths, writable \in BOOLEAN :
          OnSave(TRUE, answered, path, writable)
    \/ RunDeferred

SpecSaveSelected == Init /\ [][NextSaveSelected]_vars

\* Normalizing again: a table with two equal columns and another table are
\* loaded in turn, and the user picks one mode for both axes of plot 0.
NextPure ==
    \/ \E file \in TwinTables : LoadFile(file, 0)
    \/ \E mode \in NormModes : onNormChanged(0, mode, mode)

SpecPure == Init /\ [][NextPure]_vars

\* The normalization cache: loads that succeed, fail or are cancelled, rows
\* are brushed and killed, and the user changes axes and modes of plot 0.
NextCache ==
    \/ \E file \in {ScenarioCsv, MissingCsv}, cancelAt \in 0 .. MaxCancelAt :
          LoadFile(file, cancelAt)
    \/ HandleBrushRect(0, << 900, 900, 0, 0 >>, FALSE)
    \/ KillSelectedPoints
    \/ \E mode \in {"MinMax", "Rank"} : onNormChanged(0, mode, mode)
    \/ \E xCol \in ShownChoices, yCol \in ShownChoices : onAxisChanged(0, xCol, yCol)
    \/ RunDeferred

SpecCache == Init /\ [][NextCache]_vars

\* One file after another: text files with each kind of path are opened, and
\* rows are brushed in between.
NextDelimiter ==
    \/ \E file \in DelimiterFiles : LoadFile(file, 0)
    \/ \E rect \in BrushRects, extend \in BOOLEAN : HandleBrushRect(0, rect, extend)
    \/ RunDeferred

SpecDelimiter == Init /\ [][NextDelimiter]_vars

\* Normalizing: short tables, and the user picks one mode for both axes of
\* plot 0.
NextNorm ==
    \/ \E file \in ShortTables : LoadFile(file, 0)
    \/ \E mode \in NormModes : onNormChanged(0, mode, mode)

SpecNorm == Init /\ [][NextNorm]_vars

---------------------------------------------------------------------------
(* Brushing.                                                               *)

\* row r of the Column Store, drawn by plot plotIndex, lies in rect (the
\* bounds included, the corners in any order)
RowInside(plotIndex, rect, r) ==
    LET cfg == At(m_plotConfigs, plotIndex)
        x == At(NormalizeColumn(m_data, cfg.xCol, cfg.xNorm, 0), r)
        y == At(NormalizeColumn(m_data, cfg.yCol, cfg.yNorm, 0), r)
    IN  /\ FGe(x, Min2(rect[1], rect[3])) /\ FLe(x, Max2(rect[1], rect[3]))
        /\ FGe(y, Min2(rect[2], rect[4])) /\ FLe(y, Max2(rect[2], rect[4]))

Rows == 0 .. m_data.numRows - 1

\* row r has the same brush id after the step as before it
Keeps(r) ==
    /\ r < Len(m_selection) /\ r < Len(m_selection')
    /\ At(m_selection', r) = At(m_selection, r)

ReplacePolicy ==
    [][\A plotIndex \in Plots, rect \in BrushRects :
          HandleBrushRect(plotIndex, rect, FALSE) /\ m_data.numRows > 0
          => /\ {r \in Idx(m_selection') : At(m_selection', r) = m_activeBrush}
                = {r \in Rows : RowInside(plotIndex, rect, r)}
             /\ \A r \in Idx(m_selection) :
                   (/\ At(m_selection, r) = m_activeBrush
                    /\ ~(r \in Rows /\ RowInside(plotIndex, rect, r)))
                   => r < Len(m_selection') /\ At(m_selection', r) = 0]_vars

\* C3: Extend only adds: a brush rectangle applied with extend=true never resets
\* a row to 0 and leaves every row outside the rectangle with the brush id it
\* had before, while the rows inside the rectangle carry the active brush.
ExtendOnlyAdds ==
    [][\A plotIndex \in Plots, rect \in BrushRects :
          HandleBrushRect(plotIndex, rect, TRUE) /\ m_data.numRows > 0
          => /\ \A r \in Idx(m_selection) :
                   At(m_selection, r) # 0
                   => r < Len(m_selection') /\ At(m_selection', r) # 0
             /\ \A r \in Idx(m_selection) :
                   ~(r \in Rows /\ RowInside(plotIndex, rect, r)) => Keeps(r)
             /\ \A r \in Rows :
                   RowInside(plotIndex, rect, r)
                   => r < Len(m_selection')
                      /\ At(m_selection', r) = m_activeBrush]_vars

---------------------------------------------------------------------------
(* Loading and removing rows.                                              *)

\* C4: a cancelled load leaves the previous Column Store untouched: when the
\* progress callback returns false the load fails with a cancellation error
\* and dataset() shows the store it showed before (labels, data, numRows,
\* numCols, column metadata), with no row of the aborted load.
CancelledLoadKeepsStore ==
    [][last'.op = "LoadFile" /\ m_error' = "Loading cancelled"
       => m_data' = m_data]_vars

\* the values of row r of ds
RowOf(ds, r) == [c \in 1 .. ds.numCols |-> value(ds, r, c - 1)]

\* C5: KillSelected removes exactly the selected rows: afterwards the Column
\* Store holds the rows that had selection[r] = 0, in their order and with
\* their values, numRows is reduced by the number of rows with
\* selection[r] > 0, and the selection is all zero, as long as the new numRows.
KillRemovesSelected ==
    [][(/\ last'.op = "KillSelectedPoints"
        /\ \E r \in Idx(m_selection) : At(m_selection, r) > 0)
       => LET kept == SetToSortedSeq({r \in Rows :
                          r < Len(m_selection) /\ At(m_selection, r) = 0})
              selected == {r \in Idx(m_selection) : At(m_selection, r) > 0}
          IN  /\ m_data'.numRows = m_data.numRows - Cardinality(selected)
              /\ m_data'.numRows = Len(kept)
              /\ m_data'.numCols = m_data.numCols
              /\ \A k \in 1 .. Len(kept) :
                    RowOf(m_data', k - 1) = RowOf(m_data, kept[k])
              /\ m_selection' = Fill(m_data'.numRows, 0)]_vars

\* C6: Selection length lockstep: in every reachable state the selection vector
\* is as long as the Column Store has rows.
SelectionLockstep == Len(m_selection) = m_data.numRows

---------------------------------------------------------------------------
(* Brush ids.                                                              *)

\* C7: Selection value domain: in every reachable state every element of the
\* selection vector is in 0..7 and the brush used for selecting is in 1..7.
SelectionDomain ==
    /\ \A r \in Idx(m_selection) : At(m_selection, r) \in 0 .. 7
    /\ m_activeBrush \in 1 .. 7

\* brush 0 was pressed in the control panel and a rectangle then selected rows
SelectedWithBrushZero ==
    /\ last.op = "HandleBrushRect"
    /\ cp_activeBrush = 0
    /\ \E r \in Idx(m_selection) : At(m_selection, r) = m_activeBrush

\* C9: Invert targets the active brush: it sets every row that was 0 to the
\* brush active at the time and every row that carried a brush id to 0, and
\* keeps the vector's length.
InvertTargetsActiveBrush ==
    [][last'.op = "InvertAllSelections"
       => /\ Len(m_selection') = Len(m_selection)
          /\ \A r \in Idx(m_selection) :
                /\ At(m_selection, r) = 0 => At(m_selection', r) = m_activeBrush
                /\ At(m_selection, r) \in 1 .. 7 => At(m_selection', r) = 0]_vars

\* an invert with brush 7 active gave brush 7 to some rows and cleared others
InvertedWithBrushSeven ==
    /\ last.op = "InvertAllSelections"
    /\ m_activeBrush = 7
    /\ \E r \in Idx(m_selection) : At(m_selection, r) = 7
    /\ \E r \in Idx(m_selection) : At(m_selection, r) = 0

---------------------------------------------------------------------------
(* Views.                                                                  *)

\* the view shows sel: slot i holds the brush id of the row the display index
\* map gives for i, or of row i when the view shows every row
ViewShows(canvas, sel) ==
    LET di == canvas.m_displayIndices
    IN  IF di # << >>
        THEN /\ \A i \in 1 .. Len(di) : di[i] < Len(sel)
             /\ canvas.m_selection = [i \in 1 .. Len(di) |-> At(sel, di[i])]
        ELSE canvas.m_selection = sel

\* C8: Selection fan-out reaches every view: once the deferred propagation
\* queued by a change of the global selection has run, every view's selection
\* is the global selection read through the view's display index map,
\* whichever view is active then and whatever was handled in between.
SelectionFanOut ==
    [][(/\ last'.op = "RunDeferred"
        /\ Head(pending) = m_selection
        /\ m_selection' = m_selection)
       => \A p \in Plots : ViewShows(At(m_canvases', p), m_selection')]_vars

\* the rows in `shown` attain the greatest and the least finite value of vals
AxisExtremesShown(vals, shown) ==
    LET finite == {r \in Idx(vals) : isfinite(At(vals, r))}
    IN  finite # {}
        => /\ \E r \in shown \cap finite :
                 \A q \in finite : At(vals, r) >= At(vals, q)
           /\ \E r \in shown \cap finite :
                 \A q \in finite : At(vals, r) <= At(vals, q)

\* C10: Extreme preservation: whenever a view is subsampled, for every active
\* axis (x, y, and z when set) its display indices hold a row that attains the
\* maximum and a row that attains the minimum of the axis's normalized values,
\* whatever the column holds (ties, non-finite entries).
ExtremePreservation ==
    \A p \in Plots :
        LET canvas == At(m_canvases, p)
            cfg == At(m_plotConfigs, p)
            axes == {<< cfg.xCol, cfg.xNorm >>, << cfg.yCol, cfg.yNorm >>}
                    \cup (IF cfg.zCol >= 0 /\ cfg.zCol < m_data.numCols
                          THEN {<< cfg.zCol, cfg.zNorm >>} ELSE {})
        IN  canvas.m_displayIndices # << >>
            => \A a \in axes :
                  AxisExtremesShown(NormalizeColumn(m_data, a[1], a[2], 0),
                                    Range(canvas.m_displayIndices))

\* C11: Display index map shape: whenever numRows exceeds the display budget a
\* view's displayIndices is a strictly increasing sequence of row indices in
\* 0..numRows-1, no longer than the budget; whenever numRows is at most the
\* budget displayIndices is empty and display slot i denotes row i.
DisplayMapShape ==
    \A p \in Plots :
        LET canvas == At(m_canvases, p)
            di == canvas.m_displayIndices
        IN  IF m_data.numRows > MAX_DISPLAY_POINTS
            THEN /\ \A i \in 1 .. Len(di) : di[i] \in 0 .. m_data.numRows - 1
                 /\ \A i \in 1 .. Len(di) - 1 : di[i] < di[i + 1]
                 /\ Len(di) <= MAX_DISPLAY_POINTS
            ELSE /\ di = << >>
                 /\ Len(canvas.m_points) = m_data.numRows

---------------------------------------------------------------------------
(* Normalization.                                                          *)

\* column col of the Column Store holds finite values only
FiniteColumn(col) == \A r \in Rows : isfinite(value(m_data, r, col))

\* C12: Normalization range: for every mode of the NormMode enum and every
\* column whose values are all finite (negative values and a non-positive
\* maximum included), every output of NormalizeColumn lies in [-0.9, 0.9].
NormalizationRange ==
    \A key \in DOMAIN m_normCache :
        FiniteColumn(key[1])
        => \A i \in 1 .. Len(m_normCache[key]) :
              m_normCache[key][i] \in -900 .. 900

\* C13: NaN pass-through: for every normalization mode and every column, each
\* row whose raw value is NaN has a NaN output at the same position, never a
\* finite value.
NaNPassThrough ==
    \A key \in DOMAIN m_normCache :
        \A r \in Rows :
            ~isfinite(value(m_data, r, key[1]))
            => r < Len(m_normCache[key]) /\ ~isfinite(At(m_normCache[key], r))

\* the column with a NaN was normalized with every mode, each giving finite
\* values to the other rows
NaNColumnInEveryMode ==
    /\ \E r \in Rows : ~isfinite(value(m_data, r, 0))
    /\ \A mode \in NormModes :
          /\ << 0, mode >> \in DOMAIN m_normCache
          /\ \E i \in 1 .. Len(m_normCache[<< 0, mode >>]) :
                isfinite(m_normCache[<< 0, mode >>][i])

\* the column holds one value in all its rows
SameInEveryRow(ds, col) ==
    \A row \in 1 .. ds.numRows - 1 : value(ds, row, col) = value(ds, 0, col)

\* a column with its label, its metadata and its values
ColumnOf(ds, col) ==
    [label |-> At(ds.columnLabels, col),
     meta |-> At(ds.columnMeta, col),
     values |-> [r \in 1 .. ds.numRows |-> value(ds, r - 1, col)]]

Columns(ds) == [c \in 1 .. ds.numCols |-> ColumnOf(ds, c - 1)]

\* the tables the loader ingests from the files a load may name, as they
\* are before the constant columns leave
Reads ==
    {readFile(file, m_delimiter, m_maxRows, cancelAt) :
        file \in StoreFiles \cup {savedFile}, cancelAt \in 0 .. MaxCancelAt}

\* C14 (constant-column pruning): after a successful load no column of the
\* Column Store holds the same value in every row, and the store is the
\* ingested table without its constant columns: the other columns keep
\* their order, labels, metadata and values.
ConstantColumnPruning ==
    [][last'.op \in {"LoadFile", "Crashed"} /\ m_error' = "" =>
        /\ \A col \in 0 .. m_data'.numCols - 1 : ~SameInEveryRow(m_data', col)
        /\ \E rd \in Reads : rd.ok /\ Pruned(rd).data = m_data'
        /\ \A rd \in Reads :
              rd.ok /\ Pruned(rd).data = m_data' =>
                LET kept == SelectSeq([c \in 1 .. rd.data.numCols |-> c - 1],
                                      LAMBDA col : ~SameInEveryRow(rd.data, col))
                IN  /\ m_data'.numRows = rd.data.numRows
                    /\ Columns(m_data') =
                          [j \in 1 .. Len(kept) |-> ColumnOf(rd.data, kept[j])]]_vars

\* k.csv is loaded: its column of sevens is gone
ConstantColumnPruned ==
    /\ last.op = "LoadFile"
    /\ m_error = ""
    /\ m_data.numRows = 5
    /\ m_data.columnLabels = << << "k" >>, << "n" >> >>

\* the lines of a text file that hold a data row of numCols columns: the
\* lines after the header that are no comments and are not too short
DataLines(file, delimiter, numCols) ==
    LET first == FirstNonComment(file.lines, 1)
        tokens == splitTokens(file.lines[first], delimiter)
        header == \A t \in 1 .. Len(tokens) : ~ParsesAsNumber(tokens[t])
        start == IF header THEN first + 1 ELSE first
    IN  SelectSeq(SubSeq(file.lines, start, Len(file.lines)),
                  LAMBDA line : /\ ~isCommentLine(line)
                                /\ Len(splitTokens(line, delimiter)) >= numCols)

\* C15 (categorical encoding): after a successful text load, the rows of
\* the table are the first data lines of the file, and for every column
\* the loader classified as categorical the category list is the set of
\* the distinct tokens of that column in these rows, in strictly increasing
\* lexicographic order, and each row's stored value is the zero-based
\* position of its token in that list.
CategoricalEncoding ==
    [][last'.op \in {"LoadFile", "Crashed"} /\ m_error' = "" =>
        \A file \in StoreFiles \cup {savedFile}, cancelAt \in 0 .. MaxCancelAt :
           \A rd \in {readFile(file, m_delimiter, m_maxRows, cancelAt)} :
              rd.ok /\ Pruned(rd).data = m_data' =>
                LET ds == rd.data
                    lines == DataLines(file, rd.delimiter, ds.numCols)
                    token(row, col) == At(splitTokens(lines[row + 1], rd.delimiter), col)
                IN  /\ ds.numRows <= Len(lines)
                    /\ \A col \in 0 .. ds.numCols - 1 :
                          At(ds.columnMeta, col).isCategorical =>
                            LET cats == At(ds.columnMeta, col).categories
                            IN  /\ \A i \in 1 .. Len(cats) - 1 : LexLess(cats[i], cats[i + 1])
                                /\ Range(cats) = {token(row, col) : row \in 0 .. ds.numRows - 1}
                                /\ \A row \in 0 .. ds.numRows - 1 :
                                      /\ value(ds, row, col) \in 0 .. Len(cats) - 1
                                      /\ At(cats, value(ds, row, col)) = token(row, col)]_vars

\* k.csv is loaded: the words x, y, x, z, z are stored as 0, 1, 0, 2, 2
WordsEncoded ==
    /\ last.op = "LoadFile"
    /\ m_error = ""
    /\ m_data.numRows = 5
    /\ At(m_data.columnMeta, 0) =
          [isCategorical |-> TRUE, categories |-> << << "x" >>, << "y" >>, << "z" >> >>]
    /\ [r \in 1 .. 5 |-> value(m_data, r - 1, 0)] = << 0, 1, 0, 2, 2 >>

\* the category string of a row in a categorical column
CategoryString(ds, row, col) == At(At(ds.columnMeta, col).categories, value(ds, row, col))

\* the store was written with "Save All" just now
JustSaved ==
    /\ last.op = "OnSave"
    /\ m_data.numRows > 0
    /\ savedFile = saveAsCsv(m_data, CsvPath, TRUE, << >>, savedFile)

\* C16 (categorical CSV round-trip): when the table is saved as CSV and the
\* saved file is loaded next, the load succeeds with the same rows and
\* columns, and every categorical column is categorical again with the
\* same category string in every row.
CsvRoundTrip ==
    [][JustSaved /\ last'.op \in {"LoadFile", "Crashed"} =>
        \A r \in {loadFile(savedFile, m_delimiter, m_maxRows, 0)} :
           m_data' = r.data /\ m_error' = r.error =>
             /\ m_error' = ""
             /\ m_data'.numRows = m_data.numRows
             /\ m_data'.numCols = m_data.numCols
             /\ \A col \in 0 .. m_data.numCols - 1 :
                   At(m_data.columnMeta, col).isCategorical =>
                     /\ At(m_data'.columnMeta, col).isCategorical
                     /\ \A row \in 0 .. m_data.numRows - 1 :
                           CategoryString(m_data', row, col) = CategoryString(m_data, row, col)]_vars

\* C17 (row limit): a load under a row limit leaves at most that many rows
\* in the Column Store.
RowLimit ==
    [][last'.op \in {"LoadFile", "Crashed"} /\ m_error' = "" /\ m_maxRows > 0 =>
        m_data'.numRows <= m_maxRows]_vars

\* labels, metadata and values of a table agree with its row and column
\* counts
WellShaped(ds) ==
    /\ Len(ds.columnLabels) = ds.numCols
    /\ Len(ds.columnMeta) = ds.numCols
    /\ Len(ds.data) = ds.numRows * ds.numCols

\* C18 (Column Store shape): after every successful load and after every
\* Kill Selected that removed rows the store has one label and one metadata
\* entry per column and numRows * numCols values.
StoreShape ==
    [][\/ last'.op \in {"LoadFile", "Crashed"} /\ m_error' = ""
       \/ last'.op = "KillSelectedPoints" /\ m_data' # m_data
       => WellShaped(m_data')]_vars

\* the pan and zoom of a view along x and along y
ViewX(canvas) == << canvas.m_panX, canvas.m_zoomX >>

ViewY(canvas) == << canvas.m_panY, canvas.m_zoomY >>

\* C19 (axis-lock propagation): when view s reports the pan/zoom (panX,
\* panY, zoomX, zoomY), every other view d takes (panX, zoomX) on its x
\* axis if s.xLocked and d.xCol = s.xCol, otherwise on its y axis if
\* s.xLocked and d.yCol = s.xCol; symmetrically (panY, zoomY) for s.yLocked;
\* an axis of d that shows no locked column of s keeps its pan/zoom.
AxisLockPropagation ==
    [][\A s \in Plots, view \in ViewChoices :
          onViewChanged(s, view[1], view[2], view[3], view[4]) =>
            \A d \in Plots \ {s} :
               LET src == At(m_plotConfigs, s)
                   dst == At(m_plotConfigs, d)
                   old == At(m_canvases, d)
                   new == At(m_canvases', d)
                   byX == << view[1], view[3] >>
                   byY == << view[2], view[4] >>
               IN  /\ src.xLocked /\ dst.xCol = src.xCol => ViewX(new) = byX
                   /\ src.xLocked /\ dst.xCol # src.xCol /\ dst.yCol = src.xCol
                         => ViewY(new) = byX
                   /\ src.yLocked /\ dst.yCol = src.yCol => ViewY(new) = byY
                   /\ src.yLocked /\ dst.yCol # src.yCol /\ dst.xCol = src.yCol
                         => ViewX(new) = byY
                   /\ ~(src.xLocked /\ dst.xCol = src.xCol)
                         /\ ~(src.yLocked /\ dst.xCol = src.yCol)
                         => ViewX(new) = ViewX(old)
                   /\ ~(src.xLocked /\ dst.yCol = src.xCol)
                         /\ ~(src.yLocked /\ dst.yCol = src.yCol)
                         => ViewY(new) = ViewY(old)]_vars

\* the plot configurations with the lock flags locks[j] = << xLocked,
\* yLocked >> on plot j
WithLocks(cfgs, locks) ==
    [j \in 1 .. NumPlots |->
        [cfgs[j] EXCEPT !.xLocked = locks[j][1], !.yLocked = locks[j][2]]]

\* the canvases with the view views[j] on plot j
WithViews(canvases, views) ==
    [j \in 1 .. NumPlots |->
        SetPanZoom(canvases[j], views[j][1], views[j][2], views[j][3], views[j][4])]

Selections(results) == {res.selection : res \in results}

\* C20 (locking never affects selection): a change of a view's lock flags
\* and a pan/zoom change with its propagation leave the selection vector
\* as it is, and a brush rectangle gives the same selection whatever lock
\* flags and pan/zoom values the views have.
LockingKeepsSelection ==
    [][/\ \A p \in Plots, xLock \in BOOLEAN, yLock \in BOOLEAN :
             onAxisLockChanged(p, xLock, yLock) => m_selection' = m_selection
       /\ \A s \in Plots, view \in ViewChoices :
             onViewChanged(s, view[1], view[2], view[3], view[4])
                => m_selection' = m_selection
       /\ \A p \in Plots, rect \in BrushRects, extend \in BOOLEAN :
             HandleBrushRect(p, rect, extend) /\ m_data.numRows > 0 =>
                \A actual \in {Selections(BrushResults(m_plotConfigs, m_canvases,
                                                       m_normCache, m_data, m_selection,
                                                       m_activeBrush, m_activePlot,
                                                       p, rect, extend))} :
                   /\ m_selection' \in actual
                   /\ \A locks \in [1 .. NumPlots -> BOOLEAN \X BOOLEAN],
                         view \in ViewChoices :
                           Selections(BrushResults(WithLocks(m_plotConfigs, locks),
                                                   WithViews(m_canvases,
                                                             [j \in 1 .. NumPlots |-> view]),
                                                   m_normCache, m_data, m_selection,
                                                   m_activeBrush, m_activePlot,
                                                   p, rect, extend))
                           = actual]_vars

\* rows were brushed in a plot with a locked x axis and a panned view
BrushedUnderLock ==
    /\ last.op = "HandleBrushRect"
    /\ \E i \in 1 .. Len(m_selection) : m_selection[i] > 0
    /\ \A p \in Plots : At(m_plotConfigs, p).xLocked /\ At(m_canvases, p).m_panX # 0

---------------------------------------------------------------------------
(* Save Selected.                                                          *)

\* the line a save of every row writes for row `row` of ds
SavedLine(ds, row) == saveAsCsv(ds, CsvPath, TRUE, << >>, NoFile).lines[row + 2]

\* the rows of ds that carry a brush id in sel, in row order
SelectedRows(ds, sel) ==
    SetToSortedSeq({r \in 0 .. ds.numRows - 1 : r < Len(sel) /\ At(sel, r) > 0})

\* Save Selected wrote a file: the table has rows, one of them is selected,
\* the dialog was answered and the path is writable
SavesSelected(path) ==
    /\ OnSave(TRUE, TRUE, path, TRUE)
    /\ m_data.numRows > 0
    /\ \E i \in 1 .. Len(m_selection) : m_selection[i] > 0

\* C21: Save with a selection writes only selected rows: when Save Selected
\* calls saveAsCsv with the selection, the written file holds the header
\* followed by exactly the rows with selection[row] > 0, in row order, and no
\* row with selection[row] = 0, in every reachable state of the selection and
\* the Column Store.
SaveSelectedWritesSelected ==
    [][\A path \in SavePaths :
         SavesSelected(path)
         => \E rows \in {SelectedRows(m_data, m_selection)} :
               /\ savedFile'.exists
               /\ Len(savedFile'.lines) = 1 + Len(rows)
               /\ savedFile'.lines[1] = JoinComma(m_data.columnLabels)
               /\ \A k \in 1 .. Len(rows) :
                     savedFile'.lines[k + 1] = SavedLine(m_data, rows[k])]_vars

\* the same for the states in which the selection is as long as the table
SaveSelectedInLockstep ==
    [][\A path \in SavePaths :
         SavesSelected(path) /\ Len(m_selection) = m_data.numRows
         => \E rows \in {SelectedRows(m_data, m_selection)} :
               /\ Len(savedFile'.lines) = 1 + Len(rows)
               /\ \A k \in 1 .. Len(rows) :
                     savedFile'.lines[k + 1] = SavedLine(m_data, rows[k])]_vars

---------------------------------------------------------------------------
(* The delimiter.                                                          *)

\* the delimiter the extension stands for
ExtensionDelimiter(ext) ==
    CASE ext = "csv" -> ","
      [] ext = "tsv" -> "\t"
      [] OTHER -> " "

\* the table a manager holds after it read the file with the delimiter of
\* the file's extension
ReadByExtension(file) ==
    With(readAsciiFile(file, ExtensionDelimiter(file.path.ext), m_maxRows, 0), Pruned).data

\* C22: the delimiter depends only on the extension: for every text load,
\* whatever the manager loaded before and whatever the length of the path,
\* the lines are tokenized at ',' for csv, at tabs for tsv and at whitespace
\* runs otherwise, so managers with different histories read the same table.
DelimiterByExtension ==
    [][\A file \in DelimiterFiles :
         LoadFile(file, 0)
         => /\ m_delimiter' = ExtensionDelimiter(file.path.ext)
            /\ m_data' = ReadByExtension(file)]_vars

\* the same for the paths of four characters and more
DelimiterByExtensionOfLongPath ==
    [][\A file \in DelimiterFiles :
         LoadFile(file, 0) /\ file.path.size >= 4
         => /\ m_delimiter' = ExtensionDelimiter(file.path.ext)
            /\ m_data' = ReadByExtension(file)]_vars

---------------------------------------------------------------------------
(* MinMax.                                                                 *)

\* the finite values of column col of the Column Store
FiniteOf(col) == finiteValues([r \in 1 .. m_data.numRows |-> value(m_data, r - 1, col)])

\* C23: MinMax is the linear map onto the display range: for a column with
\* finite min < max, NormalizeColumn with mode MinMax maps each finite v to
\* ((v - min) / (max - min)) * 1.8 - 0.9, so the minimum maps to -0.9 and the
\* maximum to 0.9.
MinMaxLinearMap ==
    \A key \in DOMAIN m_normCache :
        key[2] = "MinMax" /\ FiniteOf(key[1]) # << >>
        => \E mn \in {SeqMin(FiniteOf(key[1]))}, mx \in {SeqMax(FiniteOf(key[1]))} :
              mn < mx
              => /\ Len(m_normCache[key]) = m_data.numRows
                 /\ \A r \in Rows :
                       \E v \in {value(m_data, r, key[1])} :
                          isfinite(v)
                          => /\ At(m_normCache[key], r)
                                  = Div((v - mn) * 1800, mx - mn) - 900
                             /\ v = mn => At(m_normCache[key], r) = -900
                             /\ v = mx => At(m_normCache[key], r) = 900

\* the column 1, 2, 3, 4, 5 was normalized with MinMax
RampMapped ==
    /\ << 0, "MinMax" >> \in DOMAIN m_normCache
    /\ m_data.numRows = 5
    /\ [r \in 1 .. 5 |-> value(m_data, r - 1, 0)] = << 1, 2, 3, 4, 5 >>
    /\ m_normCache[<< 0, "MinMax" >>] = << -900, -450, 0, 450, 900 >>

---------------------------------------------------------------------------
(* Purity of the normalization.                                            *)

\* the raw values of column col of ds
RawColumn(ds, col) == [r \in 1 .. ds.numRows |-> value(ds, r - 1, col)]

---------------------------------------------------------------------------
(* The normalization cache.                                                *)

\* the cached vector of key is the normalization of the key's column as the
\* Column Store holds it now
Coherent(key) ==
    /\ key[1] < m_data.numCols
    /\ Len(m_normCache[key]) = m_data.numRows
    /\ m_normCache[key] = NormalizeValues(RawColumn(m_data, key[1]), key[2])

\* C25: normalization cache coherence: in every reachable state, after any
\* sequence of loads (successful, failed or cancelled), KillSelected, brush
\* applications and axis and mode changes, every entry (col, mode) of the
\* cache equals NormalizeColumn of column col of the current Column Store
\* with that mode, and has length numRows.
CacheCoherence == \A key \in DOMAIN m_normCache : Coherent(key)

\* the same for the states in which the last load did not fail
CacheCoherenceAfterSuccess ==
    m_error = "" => \A key \in DOMAIN m_normCache : Coherent(key)

---------------------------------------------------------------------------
(* The views after rows were removed.                                      *)

\* the rows a view shows, slot by slot
ShownRows(canvas, ds) ==
    IF canvas.m_displayIndices # << >> THEN canvas.m_displayIndices
    ELSE [k \in 1 .. ds.numRows |-> k - 1]

\* the point buffer of the view holds the rows of ds it shows, at their
\* normalized coordinates
ViewHoldsRows(canvas, cfg, ds) ==
    \E rows \in {ShownRows(canvas, ds)} :
        /\ Len(canvas.m_points) = Len(rows)
        /\ \A k \in 1 .. Len(rows) : rows[k] < ds.numRows
        /\ ds.numRows > 0
           => \E xVals \in {NormalizeValues(RawColumn(ds, cfg.xCol), cfg.xNorm)},
                 yVals \in {NormalizeValues(RawColumn(ds, cfg.yCol), cfg.yNorm)} :
                 \A k \in 1 .. Len(rows) :
                    /\ canvas.m_points[k].x = At(xVals, rows[k])
                    /\ canvas.m_points[k].y = At(yVals, rows[k])

\* KillSelectedPoints removed rows in this step
RowsKilled == last'.op = "KillSelectedPoints" /\ m_data' # m_data

\* C26: views are rebuilt on row deletion: after KillSelected completes, for
\* any selection including one that covers every row, each view's point
\* buffer holds exactly the rows remaining in the Column Store (read through
\* its display index map), so no deleted row is still displayed.
ViewsRebuiltOnKill ==
    [][RowsKilled
       => \A p \in Plots :
             ViewHoldsRows(At(m_canvases', p), At(m_plotConfigs', p), m_data')]_vars

\* the same for the kills that leave a row
ViewsRebuiltWhileRowsRemain ==
    [][RowsKilled /\ m_data'.numRows > 0
       => \A p \in Plots :
             ViewHoldsRows(At(m_canvases', p), At(m_plotConfigs', p), m_data')]_vars

---------------------------------------------------------------------------
(* Display slots and rows.                                                 *)

\* SetSelection(sel) and GetOriginalDataRow translate between the slots of
\* the view and the rows of sel
Translates(canvas, sel) ==
    \E shown \in {SetSelection(canvas, sel)}, di \in {canvas.m_displayIndices} :
        IF di # << >>
        THEN /\ Len(shown.m_selection) = Len(di)
             /\ \A i \in 1 .. Len(di) :
                   /\ di[i] < Len(sel)
                   /\ shown.m_selection[i] = At(sel, di[i])
                   /\ GetOriginalDataRow(canvas, i - 1) = di[i]
        ELSE /\ shown.m_selection = sel
             /\ \A r \in Idx(sel) : GetOriginalDataRow(canvas, r) = r

\* C27: display-slot translation: for a subsampled view, SetSelection(sel)
\* with the full-dataset vector sel gives the view one entry per display slot,
\* entry i being sel[displayIndices[i]], and GetOriginalDataRow(i) returns
\* displayIndices[i]; for a view without subsampling both translations are
\* the identity on row indices.
DisplaySlotTranslation ==
    \A p \in Plots : Translates(At(m_canvases, p), m_selection)

\* the same for the states in which the Column Store has rows
DisplaySlotTranslationWithRows ==
    m_data.numRows > 0 => \A p \in Plots : Translates(At(m_canvases, p), m_selection)

---------------------------------------------------------------------------
(* The table after a load.                                                 *)

\* the step is a load that the loader reported as successful
LoadSucceeded == last'.op \in {"LoadFile", "Crashed"} /\ m_error' = ""

\* C28: a successful load yields a usable table: whenever loadAsciiFile
\* returns true the Column Store has numRows >= 1 and numCols >= 1 (pruning
\* never removes every column), so the axis assignment "index modulo
\* numCols" that follows the load is well defined.
LoadYieldsUsableTable ==
    [][LoadSucceeded
       => /\ m_data'.numRows >= 1
          /\ m_data'.numCols >= 1
          /\ last'.op # "Crashed"]_vars

\* the same for the loads that keep more than one row
LoadOfRowsYieldsUsableTable ==
    [][LoadSucceeded /\ m_data'.numRows > 1
       => /\ m_data'.numCols >= 1
          /\ last'.op # "Crashed"]_vars

---------------------------------------------------------------------------
(* Inverting twice.                                                        *)

\* C29: double invert restores the selected set but not the brush ids: with
\* the active brush B fixed, Invert applied twice to a selection gives a
\* vector whose non-zero rows are exactly the rows that were non-zero, all
\* carrying B; it equals the original if and only if every row selected
\* originally carried B.  (The step is the first Invert, and the second is
\* the handler's loop applied to the selection the step leaves.)
DoubleInvert ==
    [][last'.op = "InvertAllSelections"
       => \E twice \in {Inverted(m_selection', m_activeBrush')} :
             /\ Len(twice) = Len(m_selection)
             /\ \A r \in Idx(m_selection) :
                   /\ At(twice, r) # 0 <=> At(m_selection, r) # 0
                   /\ At(twice, r) # 0 => At(twice, r) = m_activeBrush
             /\ twice = m_selection
                <=> \A r \in Idx(m_selection) :
                       At(m_selection, r) # 0 => At(m_selection, r) = m_activeBrush]_vars

\* brush 7 is active and the selection was inverted; a row that carried
\* brush 1, as the view of plot 1 still shows, is now 0 and will carry 7
\* after the second Invert, and a row that was 0 carries 7 now
InvertedOverOtherBrush ==
    /\ last.op = "InvertAllSelections"
    /\ m_activeBrush = 7
    /\ Len(At(m_canvases, 1).m_selection) = Len(m_selection)
    /\ \E r \in Idx(m_selection) :
          At(m_selection, r) = 0 /\ At(At(m_canvases, 1).m_selection, r) = 1
    /\ \E r \in Idx(m_selection) :
          At(m_selection, r) = 7 /\ At(At(m_canvases, 1).m_selection, r) = 0

---------------------------------------------------------------------------
(* Rows with equal raw values.                                             *)

\* the normalized vector of key gives equal coordinates to the rows whose
\* raw values are equal and finite
TiesShareCoordinate(key) ==
    \A r1 \in Rows :
        \A r2 \in Rows :
           (/\ isfinite(value(m_data, r1, key[1]))
            /\ value(m_data, r1, key[1]) = value(m_data, r2, key[1]))
           => At(m_normCache[key], r1) = At(m_normCache[key], r2)

\* C30: equal raw values get equal coordinates: for every normalization mode
\* (Rank and Gaussianize included) and every column, any two rows with equal
\* finite raw values receive equal normalized values, so no brush rectangle
\* selects one of two rows with identical raw x and y and leaves the other.
EqualRawEqualCoordinates ==
    \A key \in DOMAIN m_normCache : TiesShareCoordinate(key)

\* the same for the modes other than Gaussianize
EqualRawEqualCoordinatesByValue ==
    \A key \in DOMAIN m_normCache :
        key[2] # "Gaussianize" => TiesShareCoordinate(key)

=============================================================================
